---- MODULE Spec2Model ----
(***************************************************************************)
(* MS/TP datalink facade, its RS-485 transport and the millisecond tick   *)
(* of the PIC32MX795F512L port (hardware build, TEST_MODE undefined).      *)
(*                                                                         *)
(* The program memory is one record, m; every C function is an operator   *)
(* from a memory (and its arguments) to the memory it leaves behind, so a  *)
(* handler that calls other functions is the composition of their          *)
(* operators.  The frame codec, CRC, byte FIFO and the two MS/TP state     *)
(* machines live in the upstream library (bacnet/datalink/mstp.c, crc.c,   *)
(* bacnet/basic/sys/fifo.c); they are modelled from the design document.   *)
(***************************************************************************)
EXTENDS Integers, Sequences, FiniteSets, TLC

(***************************************************************************)
(* Program constants                                                       *)
(***************************************************************************)
MAX_MPDU == 501
BACNET_RX_FIFO_SIZE == 512
BACNET_TX_FIFO_SIZE == 512
MSTP_BROADCAST_ADDRESS == 255
BACNET_BROADCAST_NETWORK == 65535
BACNET_MAX_INSTANCE == 4194303
MAX_BINARY_OUTPUTS == 4
BACNET_PRIORITY_ARRAY_SIZE == 16
\* BACNET_BINARY_PV of the library
BINARY_INACTIVE == 0
BINARY_ACTIVE == 1
DEFAULT_BAUD == 19200

FRAME_TYPE_TOKEN == 0
FRAME_TYPE_POLL_FOR_MASTER == 1
FRAME_TYPE_REPLY_TO_POLL_FOR_MASTER == 2
FRAME_TYPE_TEST_REQUEST == 3
FRAME_TYPE_TEST_RESPONSE == 4
FRAME_TYPE_BACNET_DATA_EXPECTING_REPLY == 5
FRAME_TYPE_BACNET_DATA_NOT_EXPECTING_REPLY == 6
FRAME_TYPE_REPLY_POSTPONED == 7

\* MS/TP timing parameters of the master node (milliseconds)
Tno_token == 500
Treply_timeout == 255
Tusage_timeout == 20
Tslot == 10
Treply_delay == 250

\* A pointer argument is a record; the null pointer has only the field null.
NULL == [ null |-> TRUE ]
IsNull(p) == p.null
Address(mac_len, mac0, net) ==
    [ null |-> FALSE, mac_len |-> mac_len, mac0 |-> mac0, net |-> net, len |-> 0 ]
Buffer(bytes) == [ null |-> FALSE, bytes |-> bytes ]
NpduData(data_expecting_reply) ==
    [ null |-> FALSE, data_expecting_reply |-> data_expecting_reply ]

(***************************************************************************)
(* Fixed-width arithmetic                                                  *)
(***************************************************************************)
\* Bit by bit, and from that the tables for one hexadecimal digit
RECURSIVE XorBits(_, _)
XorBits(a, b) ==
    IF a = 0 THEN b
    ELSE IF b = 0 THEN a
    ELSE (((a % 2) + (b % 2)) % 2) + 2 * XorBits(a \div 2, b \div 2)

RECURSIVE AndBits(_, _)
AndBits(a, b) ==
    IF a = 0 \/ b = 0 THEN 0
    ELSE ((a % 2) * (b % 2)) + 2 * AndBits(a \div 2, b \div 2)

XorDigit == [a \in 0..15 |-> [b \in 0..15 |-> XorBits(a, b)]]
AndDigit == [a \in 0..15 |-> [b \in 0..15 |-> AndBits(a, b)]]

\* a ^ b and a & b of values of up to 16 bits
BitXor(a, b) ==
    XorDigit[a % 16][b % 16]
    + 16 * XorDigit[(a \div 16) % 16][(b \div 16) % 16]
    + 256 * XorDigit[(a \div 256) % 16][(b \div 256) % 16]
    + 4096 * XorDigit[a \div 4096][b \div 4096]

BitAnd(a, b) ==
    AndDigit[a % 16][b % 16]
    + 16 * AndDigit[(a \div 16) % 16][(b \div 16) % 16]
    + 256 * AndDigit[(a \div 256) % 16][(b \div 256) % 16]
    + 4096 * AndDigit[a \div 4096][b \div 4096]

Pow2(n) == CASE n = 0 -> 1 [] n = 1 -> 2 [] n = 2 -> 4 [] n = 3 -> 8
             [] n = 4 -> 16 [] n = 5 -> 32 [] n = 6 -> 64 [] n = 7 -> 128
             [] n = 8 -> 256 [] n = 12 -> 4096 [] n = 16 -> 65536

U8(x) == x % 256
U16(x) == x % 65536
\* TLC's integers are 32-bit signed, so 2^32 cannot be written: the uint32
\* statistics counters and the baud-rate divisor stay far below 2^31 within
\* the bounds of this model and their sums are kept as they are.
U32(x) == x

\* A uint32_t that runs through its whole range (the millisecond counter and
\* what is computed from it) is kept as its two 16-bit halves; sums and
\* differences are taken modulo 2^32 with carry and borrow between the halves.
Word(hi, lo) == [ hi |-> hi, lo |-> lo ]
U32Of(n) == Word(n \div 65536, n % 65536)
Add32(a, b) ==
    LET Sum(lo) == Word((a.hi + b.hi + (lo \div 65536)) % 65536, lo % 65536)
    IN  Sum(a.lo + b.lo)
Sub32(a, b) ==
    LET Diff(borrow) ==
            Word((65536 + a.hi - b.hi - borrow) % 65536, (65536 + a.lo - b.lo) % 65536)
    IN  Diff(IF a.lo < b.lo THEN 1 ELSE 0)
Gt32(a, b) == a.hi > b.hi \/ (a.hi = b.hi /\ a.lo > b.lo)
Ge32(a, b) == a.hi > b.hi \/ (a.hi = b.hi /\ a.lo >= b.lo)
Shl16(x, n) == U16(x * Pow2(n))
Shr(x, n) == x \div Pow2(n)
Not8(x) == 255 - x
Not16(x) == 65535 - x

(***************************************************************************)
(* CRC of the MS/TP header (CRC8) and data (CRC16)                         *)
(***************************************************************************)
\* Both CRCs depend on the octet and the low octet of the accumulator only
\* through their exclusive or: that part is tabulated once
CRC8_Spread(c0) ==
    LET Fold(c1) == BitXor(BitAnd(c1, 254), BitAnd(Shr(c1, 8), 1))
    IN  Fold(BitXor(c0, BitXor(Shl16(c0, 1), BitXor(Shl16(c0, 2),
             BitXor(Shl16(c0, 3), BitXor(Shl16(c0, 4), BitXor(Shl16(c0, 5),
             BitXor(Shl16(c0, 6), Shl16(c0, 7)))))))))

CRC16_Mix(crcLow) ==
    BitXor(Shl16(crcLow, 8), BitXor(Shl16(crcLow, 3),
    BitXor(Shl16(crcLow, 12), BitXor(Shr(crcLow, 4),
    BitXor(BitAnd(crcLow, 15), Shl16(BitAnd(crcLow, 15), 7))))))

CRC8_Table == [c0 \in 0..255 |-> CRC8_Spread(c0)]
CRC16_Table == [crcLow \in 0..255 |-> CRC16_Mix(crcLow)]

CRC_Calc_Header(dataValue, crcValue) == CRC8_Table[BitXor(crcValue, dataValue)]

CRC_Calc_Data(dataValue, crcValue) ==
    BitXor(Shr(crcValue, 8), CRC16_Table[BitXor(BitAnd(crcValue, 255), dataValue)])

RECURSIVE HeaderCRC(_, _)
HeaderCRC(bytes, crc) ==
    IF bytes = << >> THEN crc
    ELSE HeaderCRC(Tail(bytes), CRC_Calc_Header(Head(bytes), crc))

RECURSIVE DataCRC(_, _)
DataCRC(bytes, crc) ==
    IF bytes = << >> THEN crc
    ELSE DataCRC(Tail(bytes), CRC_Calc_Data(Head(bytes), crc))

(***************************************************************************)
(* Frame codec: preamble 0x55 0xFF, type, destination, source, length      *)
(* (big-endian), header CRC8, then data and CRC16 (little-endian) when the *)
(* length is non-zero.  Yields the empty frame (length 0) when the buffer  *)
(* cannot hold the frame.                                                  *)
(***************************************************************************)
MSTP_Create_Frame(buffer_size, frame_type, destination, source, data, data_len) ==
    LET hdr == << frame_type, destination, source, (data_len \div 256), (data_len % 256) >>
        payload == SubSeq(data, 1, data_len)
        Trailer(crc16) == << (crc16 % 256), (crc16 \div 256) >>
    IN  IF buffer_size < 8 THEN << >>
        ELSE IF data_len = 0
        THEN << 85, 255 >> \o hdr \o << Not8(HeaderCRC(hdr, 255)) >>
        ELSE IF 8 + data_len + 2 > buffer_size THEN << >>
        ELSE << 85, 255 >> \o hdr \o << Not8(HeaderCRC(hdr, 255)) >> \o payload
             \o Trailer(Not16(DataCRC(payload, 65535)))


(***************************************************************************)
(* Bounds of the model                                                     *)
(***************************************************************************)
MaxSends == 2          \* PDUs the upper layer gets accepted
MaxPeerFrames == 1     \* frames other stations put on the bus
MaxTickEvents == 1     \* bursts of the 1 ms tick
MaxConfig == 1         \* accepted configuration calls while the station runs
MaxPending == 1        \* received bytes waiting in the FIFO before the task polls
MaxTxBytes == 24       \* bytes the transport is given in one run
MaxArrivals == 3       \* bytes that arrive while the transport is driven alone
MaxOverflow == 2       \* bytes that arrive beyond the capacity of the FIFO
MaxErrors == 2         \* errors the UART raises
MaxTicks == 6          \* single 1 ms ticks while a timer is watched
MaxHoldSends == 6      \* PDUs the upper layer stages around one token hold

(***************************************************************************)
(* Program memory                                                          *)
(***************************************************************************)
VARIABLES
    m,      \* the statics of dlmstp.c, rs485.c and main.c, and the UART registers
    call,   \* the call or interrupt that made the last step, with its result
    env     \* the bus and the budgets of the environment

vars == << m, call, env >>

\* struct mstp_port_struct_t as the zero-initialised static MSTP_Port
Port0 ==
    [ This_Station |-> 0, Nmax_master |-> 0, Nmax_info_frames |-> 0,
      master_state |-> "INITIALIZE", receive_state |-> "IDLE",
      ReceiveError |-> FALSE, DataAvailable |-> FALSE, DataRegister |-> 0,
      ReceivedValidFrame |-> FALSE, ReceivedInvalidFrame |-> FALSE,
      FrameType |-> 0, DestinationAddress |-> 0, SourceAddress |-> 0,
      DataLength |-> 0, Index |-> 0, HeaderCRC |-> 0, DataCRC |-> 0,
      FrameCount |-> 0, Next_Station |-> 0, Poll_Station |-> 0,
      SoleMaster |-> FALSE,
      InputBuffer |-> << >>, InputBufferSize |-> 0,
      OutputBuffer |-> << >>, OutputBufferSize |-> 0,
      SilenceTimer |-> 0, SilenceTimerReset |-> 0 ]

\* BINARY_OUTPUT_DATA as one zero-initialised element of the static BO_Data;
\* the strings, the reliability and the polarity play no part in the value
BinaryOutput0 ==
    [ Present_Value |-> 0, Relinquish_Default |-> 0,
      Priority_Array |-> [ j \in 0..(BACNET_PRIORITY_ARRAY_SIZE - 1) |-> 0 ],
      Priority_Active |-> [ j \in 0..(BACNET_PRIORITY_ARRAY_SIZE - 1) |-> FALSE ],
      Out_Of_Service |-> FALSE, Changed |-> FALSE,
      Minimum_Off_Time_ms |-> U32Of(0), Minimum_On_Time_ms |-> U32Of(0),
      Time_Of_State_Count_Change_ms |-> U32Of(0),
      Last_State |-> 0 ]

Memory0 ==
    [ \* dlmstp.c
      This_Station |-> 1, Max_Master |-> 127, Max_Info_Frames |-> 1,
      Transmit_Packet |-> [ ready |-> FALSE, destination |-> 0, frame_type |-> 0,
                            pdu |-> << >>, pdu_len |-> 0 ],
      Receive_Address |-> Address(0, 0, 0),
      Receive_PDU_Len |-> 0,
      Valid_Frame_Count |-> 0,
      MSTP_Port |-> Port0,
      \* rs485.c
      rx_fifo |-> << >>,
      rx_timestamp |-> [ i \in 1..BACNET_RX_FIFO_SIZE |-> U32Of(0) ],
      rx_timestamp_head |-> 0, rx_timestamp_tail |-> 0,
      tx_buffer |-> << >>, tx_count |-> 0, tx_pos |-> 0,
      rx_bytes |-> 0, tx_bytes |-> 0,
      transmitting |-> FALSE,
      \* UART1 and port D
      U1BRG |-> 0, U1TXIE |-> FALSE, U1RXIE |-> FALSE,
      U1STA |-> [ OERR |-> FALSE, FERR |-> FALSE, PERR |-> FALSE ],
      U1EIF |-> FALSE,
      driver_enable |-> FALSE,
      \* main.c
      millisecond_counter |-> U32Of(0),
      \* device.c
      Device_Object_Instance |-> U32Of(1234),
      \* bo.c
      BO_Data |-> [ i \in 0..(MAX_BINARY_OUTPUTS - 1) |-> BinaryOutput0 ],
      \* a struct mstimer of the application
      timer |-> [ start |-> U32Of(0), interval |-> U32Of(0) ],
      \* what the collaborators saw: the bytes written to U1TXREG since the
      \* last frame was staged and, for the call in progress, the frames the
      \* transport accepted, the calls of the upper-layer handler and what
      \* MSTP_Get_Send and MSTP_Put_Receive returned
      U1TXREG |-> << >>,
      frames_sent |-> << >>,
      fsm_runs |-> [ receive |-> 0, master |-> 0, again |-> FALSE ],
      waited |-> FALSE,
      presented |-> << >>,
      \* RS485_Send_Frame followed statement by statement: where its body
      \* stands, its argument nbytes, and the values it has loaded
      send_frame |-> [ pc |-> "idle", nbytes |-> 0, pos |-> 0, count |-> 0 ],
      npdu_handler |-> << >>,
      get_send |-> << >>,
      put_receive |-> << >>,
      \* result and output argument of the function that ran last
      ret |-> 0,
      out_address |-> Address(0, 0, 0),
      out_byte |-> 0,
      out_timestamp |-> U32Of(0),
      \* an unsigned long result
      ret32 |-> U32Of(0) ]

(***************************************************************************)
(* bacnet/basic/sys/fifo.c: bounded byte queue                             *)
(***************************************************************************)
FIFO_Init == << >>
FIFO_Empty(fifo) == fifo = << >>
FIFO_Put(fifo, byte) ==
    IF Len(fifo) < BACNET_RX_FIFO_SIZE THEN Append(fifo, byte) ELSE fifo
FIFO_Get(fifo) == Tail(fifo)
FIFO_Peek(fifo) == Head(fifo)

(***************************************************************************)
(* rs485.c                                                                 *)
(***************************************************************************)
GetPeripheralClock == 80000000

RS485_Set_Baud_Rate(s, baud) ==
    [s EXCEPT !.U1BRG = U32((GetPeripheralClock \div (4 * baud)) - 1)]

\* With baud = 0 the divisor 4 * baud is zero and the quotient is undefined:
\* the build traps on it, so that the register is never written and the
\* program stops, or it stores what the divider left behind.
DivideByZeroLeaves == { 0, 65535 }

RS485_Set_Baud_Rate_Outcomes(s, baud) ==
    IF baud = 0
    THEN { [ memory |-> s, trapped |-> TRUE ] }
         \cup { [ memory |-> [s EXCEPT !.U1BRG = v], trapped |-> FALSE ] :
                   v \in DivideByZeroLeaves }
    ELSE { [ memory |-> RS485_Set_Baud_Rate(s, baud), trapped |-> FALSE ] }

\* U1STA = 0 clears the error latches; the timestamp ring, the transmit
\* state and the transmit interrupt enable are not written.
RS485_Initialize(s) ==
    [RS485_Set_Baud_Rate([s EXCEPT !.rx_fifo = FIFO_Init, !.driver_enable = FALSE,
                                   !.U1STA = [ OERR |-> FALSE, FERR |-> FALSE,
                                               PERR |-> FALSE ]],
                         DEFAULT_BAUD)
        EXCEPT !.U1RXIE = TRUE]

\* A variant that looks at the bytes still to be written instead of the flag
Transmit_Ready_when_drained(s) == s.tx_count = 0

RS485_Transmit_Ready(s) == ~s.transmitting

\* A variant that counts the bytes of a frame it refuses
Send_Frame_counts_refused(s, buffer, nbytes) ==
    IF nbytes = 0 \/ nbytes > BACNET_TX_FIFO_SIZE
    THEN [s EXCEPT !.tx_bytes = U32(s.tx_bytes + nbytes)]
    ELSE [s EXCEPT
            !.tx_buffer = SubSeq(buffer, 1, nbytes)
                          \o SubSeq(s.tx_buffer, nbytes + 1, Len(s.tx_buffer)),
            !.tx_count = nbytes - 1,
            !.tx_pos = 1,
            !.tx_bytes = U32(s.tx_bytes + nbytes),
            !.transmitting = TRUE,
            !.driver_enable = TRUE,
            !.U1TXIE = TRUE,
            !.U1TXREG = << buffer[1] >>,
            !.frames_sent = Append(s.frames_sent, SubSeq(buffer, 1, nbytes))]

\* Called with transmitting = FALSE only (MSTP_Send_Frame tests it), so the
\* wait loop at the top falls through; s.waited records a call that had to
\* wait in it for the frame before.
RS485_Send_Frame(s, buffer, nbytes) ==
    IF nbytes = 0 \/ nbytes > BACNET_TX_FIFO_SIZE THEN s
    ELSE [s EXCEPT
            !.waited = s.transmitting,
            !.tx_buffer = SubSeq(buffer, 1, nbytes)
                          \o SubSeq(s.tx_buffer, nbytes + 1, Len(s.tx_buffer)),
            !.tx_count = nbytes - 1,
            !.tx_pos = 1,
            !.tx_bytes = U32(s.tx_bytes + nbytes),
            !.transmitting = TRUE,
            !.driver_enable = TRUE,
            !.U1TXIE = TRUE,
            !.U1TXREG = << buffer[1] >>,
            !.frames_sent = Append(s.frames_sent, SubSeq(buffer, 1, nbytes))]

\* RS485_Send_Frame statement by statement.  Up to and including the
\* statement that enables the transmit interrupt nothing can come between,
\* as that interrupt is off; from there on each load and each store of the
\* volatile tx_pos and tx_count is a step of its own, in the order of the
\* statements `U1TXREG = tx_buffer[tx_pos++]; tx_count--;`.
RS485_Send_Frame_Enter(s, buffer, nbytes) ==
    IF nbytes = 0 \/ nbytes > BACNET_TX_FIFO_SIZE THEN s
    ELSE [s EXCEPT
            !.tx_buffer = SubSeq(buffer, 1, nbytes)
                          \o SubSeq(s.tx_buffer, nbytes + 1, Len(s.tx_buffer)),
            !.tx_count = nbytes,
            !.tx_pos = 0,
            !.tx_bytes = U32(s.tx_bytes + nbytes),
            !.transmitting = TRUE,
            !.driver_enable = TRUE,
            !.U1TXIE = TRUE,
            !.U1TXREG = << >>,
            !.send_frame = [ pc |-> "test", nbytes |-> nbytes, pos |-> 0, count |-> 0 ]]

\* tx_buffer is static: what was never written reads as 0
TxBufferAt(s, i) == IF i + 1 \in DOMAIN s.tx_buffer THEN s.tx_buffer[i + 1] ELSE 0

RS485_Send_Frame_Step(s) ==
    CASE s.send_frame.pc = "test" ->
            [s EXCEPT !.send_frame.pc = IF s.tx_count > 0 THEN "load_pos" ELSE "idle"]
      [] s.send_frame.pc = "load_pos" ->
            [s EXCEPT !.send_frame.pos = s.tx_pos, !.send_frame.pc = "store_pos"]
      [] s.send_frame.pc = "store_pos" ->
            [s EXCEPT !.tx_pos = (s.send_frame.pos + 1) % 65536,
                      !.send_frame.pc = "write"]
      [] s.send_frame.pc = "write" ->
            [s EXCEPT !.U1TXREG = Append(@, TxBufferAt(s, s.send_frame.pos)),
                      !.send_frame.pc = "load_count"]
      [] s.send_frame.pc = "load_count" ->
            [s EXCEPT !.send_frame.count = s.tx_count, !.send_frame.pc = "store_count"]
      [] s.send_frame.pc = "store_count" ->
            [s EXCEPT !.tx_count = (s.send_frame.count + 65535) % 65536,
                      !.send_frame.pc = "idle"]
      [] OTHER -> s

RS485_DataAvailable(s) == ~FIFO_Empty(s.rx_fifo)


\* The byte, the timestamp at the tail of the ring, and whether a byte was there
RS485_Receive(s) ==
    IF ~FIFO_Empty(s.rx_fifo)
    THEN [s EXCEPT !.rx_fifo = FIFO_Get(s.rx_fifo),
                   !.rx_timestamp_tail = (s.rx_timestamp_tail + 1) % BACNET_RX_FIFO_SIZE,
                   !.out_byte = FIFO_Peek(s.rx_fifo),
                   !.out_timestamp = s.rx_timestamp[s.rx_timestamp_tail + 1],
                   !.ret = 1]
    ELSE [s EXCEPT !.ret = 0]

\* Reading U1RXREG takes the byte at the top of the receiver and with it the
\* framing and parity status that belong to that byte
Read_U1RXREG(s) == [s EXCEPT !.U1STA.FERR = FALSE, !.U1STA.PERR = FALSE]

RS485_ReceiveError(s) ==
    LET Overrun(s1) == IF s1.U1STA.OERR
                       THEN [s1 EXCEPT !.U1STA.OERR = FALSE, !.ret = 1] ELSE s1
        Framing(s1) == IF s1.U1STA.FERR
                       THEN [Read_U1RXREG(s1) EXCEPT !.ret = 1] ELSE s1
        Parity(s1) == IF s1.U1STA.PERR
                      THEN [Read_U1RXREG(s1) EXCEPT !.ret = 1] ELSE s1
    IN  Parity(Framing(Overrun([s EXCEPT !.ret = 0])))

(***************************************************************************)
(* main.c: the 1 ms tick                                                   *)
(***************************************************************************)
Timer1Handler(s) ==
    [s EXCEPT !.millisecond_counter = Add32(s.millisecond_counter, U32Of(1))]

\* n ticks in a row with no main-loop step between them: the first through
\* the handler, the other n - 1 summed
Timer1Ticks(s, n) ==
    LET More(t) == [t EXCEPT !.millisecond_counter =
                                Add32(t.millisecond_counter, U32Of(n - 1))]
    IN  More(Timer1Handler(s))

mstimer_now(s) == s.millisecond_counter

\* The timer functions take a pointer t: NULL, or the address of s.timer
mstimer_set(s, t, interval) ==
    IF ~IsNull(t)
    THEN [s EXCEPT !.timer.start = s.millisecond_counter,
                   !.timer.interval = interval]
    ELSE s

\* A comparison of the counter with the deadline start + interval in place of
\* the comparison of the elapsed time with the interval
expired_by_deadline(s, t) ==
    IF ~IsNull(t)
    THEN [s EXCEPT !.ret =
             IF Ge32(s.millisecond_counter, Add32(s.timer.start, s.timer.interval))
             THEN 1 ELSE 0]
    ELSE [s EXCEPT !.ret = 1]

mstimer_expired(s, t) ==
    IF ~IsNull(t)
    THEN [s EXCEPT !.ret =
             IF Ge32(Sub32(s.millisecond_counter, s.timer.start), s.timer.interval)
             THEN 1 ELSE 0]
    ELSE [s EXCEPT !.ret = 1]

mstimer_reset(s, t) ==
    IF ~IsNull(t)
    THEN [s EXCEPT !.timer.start = s.millisecond_counter]
    ELSE s

mstimer_remaining(s, t) ==
    LET Left(elapsed) ==
            IF Ge32(elapsed, s.timer.interval)
            THEN [s EXCEPT !.ret32 = U32Of(0)]
            ELSE [s EXCEPT !.ret32 = Sub32(s.timer.interval, elapsed)]
    IN  IF IsNull(t)
        THEN [s EXCEPT !.ret32 = U32Of(0)]
        ELSE Left(Sub32(s.millisecond_counter, s.timer.start))

\* A subtraction that stops at zero in place of the unsigned one
elapsed_saturating(s, t) ==
    IF ~IsNull(t)
    THEN [s EXCEPT !.ret32 =
             IF Ge32(s.millisecond_counter, s.timer.start)
             THEN Sub32(s.millisecond_counter, s.timer.start)
             ELSE U32Of(0)]
    ELSE [s EXCEPT !.ret32 = U32Of(0)]

mstimer_elapsed(s, t) ==
    IF ~IsNull(t)
    THEN [s EXCEPT !.ret32 = Sub32(s.millisecond_counter, s.timer.start)]
    ELSE [s EXCEPT !.ret32 = U32Of(0)]

mstimer_restart(s, t) == mstimer_reset(s, t)

mstimer_expire(s, t) ==
    IF ~IsNull(t)
    THEN [s EXCEPT !.timer.start = Sub32(s.millisecond_counter, s.timer.interval)]
    ELSE s

(***************************************************************************)
(* dlmstp.c: the facade                                                    *)
(***************************************************************************)
\* MSTP_Init of the upstream library resets the state machines of the port
\* and keeps its configuration and buffers.
MSTP_Init(port) ==
    [port EXCEPT
        !.master_state = "INITIALIZE", !.receive_state = "IDLE",
        !.ReceiveError = FALSE, !.DataAvailable = FALSE, !.DataRegister = 0,
        !.ReceivedValidFrame = FALSE, !.ReceivedInvalidFrame = FALSE,
        !.FrameType = FRAME_TYPE_TOKEN, !.DestinationAddress = 0,
        !.SourceAddress = 0, !.DataLength = 0, !.Index = 0,
        !.HeaderCRC = 0, !.DataCRC = 0, !.FrameCount = 0,
        !.Next_Station = port.This_Station, !.Poll_Station = port.This_Station,
        !.SoleMaster = FALSE]

\* An initialisation that leaves a staged PDU in the slot
init_keeps_packet(s) ==
    LET Configure(port) ==
            [port EXCEPT !.This_Station = s.This_Station,
                         !.Nmax_master = s.Max_Master,
                         !.Nmax_info_frames = s.Max_Info_Frames,
                         !.InputBufferSize = MAX_MPDU,
                         !.OutputBufferSize = MAX_MPDU,
                         !.SilenceTimer = 0,
                         !.SilenceTimerReset = 0]
    IN  [RS485_Initialize([s EXCEPT !.MSTP_Port = Configure(MSTP_Init(s.MSTP_Port))])
            EXCEPT !.ret = 1]

\* An initialisation that lets the port send any number of frames per token
init_info_frames_unbounded(s) ==
    LET Configure(port) ==
            [port EXCEPT !.This_Station = s.This_Station,
                         !.Nmax_master = s.Max_Master,
                         !.Nmax_info_frames = 255,
                         !.InputBufferSize = MAX_MPDU,
                         !.OutputBufferSize = MAX_MPDU,
                         !.SilenceTimer = 0,
                         !.SilenceTimerReset = 0]
    IN  [RS485_Initialize([s EXCEPT !.MSTP_Port = Configure(MSTP_Init(s.MSTP_Port)),
                                    !.Transmit_Packet.ready = FALSE])
            EXCEPT !.ret = 1]

dlmstp_init(s) ==
    LET Configure(port) ==
            [port EXCEPT !.This_Station = s.This_Station,
                         !.Nmax_master = s.Max_Master,
                         !.Nmax_info_frames = s.Max_Info_Frames,
                         !.InputBufferSize = MAX_MPDU,
                         !.OutputBufferSize = MAX_MPDU,
                         !.SilenceTimer = 0,
                         !.SilenceTimerReset = 0]
    IN  [RS485_Initialize([s EXCEPT !.MSTP_Port = Configure(MSTP_Init(s.MSTP_Port)),
                                    !.Transmit_Packet.ready = FALSE])
            EXCEPT !.ret = 1]

\* dest is NULL or an Address, npdu_data NULL or an NpduData, pdu NULL or the
\* caller's Buffer, which holds at least pdu_len bytes.
\* The second half of dlmstp_send_pdu: the slot takes the PDU
StagePdu(s, dest, npdu_data, pdu, pdu_len) ==
    [s EXCEPT
        !.Transmit_Packet =
            [ ready |-> TRUE,
              destination |->
                  IF ~IsNull(dest) /\ dest.mac_len = 1 THEN dest.mac0
                  ELSE MSTP_BROADCAST_ADDRESS,
              frame_type |->
                  IF ~IsNull(npdu_data) /\ npdu_data.data_expecting_reply
                  THEN FRAME_TYPE_BACNET_DATA_EXPECTING_REPLY
                  ELSE FRAME_TYPE_BACNET_DATA_NOT_EXPECTING_REPLY,
              pdu |-> SubSeq(pdu.bytes, 1, pdu_len)
                      \o SubSeq(s.Transmit_Packet.pdu, pdu_len + 1,
                                Len(s.Transmit_Packet.pdu)),
              pdu_len |-> pdu_len ],
        !.ret = pdu_len]

\* Variants of dlmstp_send_pdu that lack one of its checks or results
send_pdu_overwrites(s, dest, npdu_data, pdu, pdu_len) ==
    IF IsNull(pdu) \/ pdu_len = 0 \/ pdu_len > MAX_MPDU
    THEN [s EXCEPT !.ret = -1]
    ELSE StagePdu(s, dest, npdu_data, pdu, pdu_len)

send_pdu_takes_empty(s, dest, npdu_data, pdu, pdu_len) ==
    IF IsNull(pdu) \/ pdu_len > MAX_MPDU
    THEN [s EXCEPT !.ret = -1]
    ELSE IF s.Transmit_Packet.ready
    THEN [s EXCEPT !.ret = -2]
    ELSE StagePdu(s, dest, npdu_data, pdu, pdu_len)

send_pdu_returns_zero(s, dest, npdu_data, pdu, pdu_len) ==
    IF IsNull(pdu) \/ pdu_len = 0 \/ pdu_len > MAX_MPDU
    THEN [s EXCEPT !.ret = -1]
    ELSE IF s.Transmit_Packet.ready
    THEN [s EXCEPT !.ret = -2]
    ELSE [StagePdu(s, dest, npdu_data, pdu, pdu_len) EXCEPT !.ret = 0]

send_pdu_needs_dest(s, dest, npdu_data, pdu, pdu_len) ==
    IF IsNull(dest) \/ IsNull(pdu) \/ pdu_len = 0 \/ pdu_len > MAX_MPDU
    THEN [s EXCEPT !.ret = -1]
    ELSE IF s.Transmit_Packet.ready
    THEN [s EXCEPT !.ret = -2]
    ELSE StagePdu(s, dest, npdu_data, pdu, pdu_len)

dlmstp_send_pdu(s, dest, npdu_data, pdu, pdu_len) ==
    IF IsNull(pdu) \/ pdu_len = 0 \/ pdu_len > MAX_MPDU
    THEN [s EXCEPT !.ret = -1]
    ELSE IF s.Transmit_Packet.ready
    THEN [s EXCEPT !.ret = -2]
    ELSE StagePdu(s, dest, npdu_data, pdu, pdu_len)

\* A variant that reports the station's own address as the broadcast address
get_broadcast_address_own(s, dest) ==
    IF ~IsNull(dest)
    THEN [s EXCEPT !.out_address =
                      Address(1, s.This_Station, BACNET_BROADCAST_NETWORK)]
    ELSE s

dlmstp_get_broadcast_address(s, dest) ==
    IF ~IsNull(dest)
    THEN [s EXCEPT !.out_address =
                      Address(1, MSTP_BROADCAST_ADDRESS, BACNET_BROADCAST_NETWORK)]
    ELSE s

dlmstp_get_my_address(s, my_address) ==
    IF ~IsNull(my_address)
    THEN [s EXCEPT !.out_address = Address(1, s.This_Station, 0)]
    ELSE s

\* A variant that takes only the addresses a master may have
set_mac_address_masters(s, mac_address) ==
    IF mac_address <= 127
    THEN IF s.MSTP_Port.This_Station # mac_address
         THEN [s EXCEPT !.This_Station = mac_address,
                        !.MSTP_Port = MSTP_Init([s.MSTP_Port EXCEPT
                                                    !.This_Station = mac_address])]
         ELSE [s EXCEPT !.This_Station = mac_address]
    ELSE s

\* A variant that stores the address and leaves the state machine running
set_mac_address_no_reset(s, mac_address) ==
    IF mac_address <= 254
    THEN [s EXCEPT !.This_Station = mac_address,
                   !.MSTP_Port.This_Station = mac_address]
    ELSE s

dlmstp_set_mac_address(s, mac_address) ==
    IF mac_address <= 254
    THEN IF s.MSTP_Port.This_Station # mac_address
         THEN [s EXCEPT !.This_Station = mac_address,
                        !.MSTP_Port = MSTP_Init([s.MSTP_Port EXCEPT
                                                    !.This_Station = mac_address])]
         ELSE [s EXCEPT !.This_Station = mac_address]
    ELSE s

dlmstp_mac_address(s) == [s EXCEPT !.ret = s.This_Station]

\* A variant whose limit is off by one
set_max_master_128(s, max_master) ==
    IF max_master <= 128
    THEN [s EXCEPT !.Max_Master = max_master,
                   !.MSTP_Port.Nmax_master = max_master]
    ELSE s

dlmstp_set_max_master(s, max_master) ==
    IF max_master <= 127
    THEN [s EXCEPT !.Max_Master = max_master,
                   !.MSTP_Port.Nmax_master = max_master]
    ELSE s

dlmstp_max_master(s) == [s EXCEPT !.ret = s.Max_Master]

\* A variant that leaves the port's copy alone
set_max_info_frames_facade_only(s, max_info_frames) ==
    IF max_info_frames >= 1
    THEN [s EXCEPT !.Max_Info_Frames = max_info_frames]
    ELSE s

dlmstp_set_max_info_frames(s, max_info_frames) ==
    IF max_info_frames >= 1
    THEN [s EXCEPT !.Max_Info_Frames = max_info_frames,
                   !.MSTP_Port.Nmax_info_frames = max_info_frames]
    ELSE s

dlmstp_max_info_frames(s) == [s EXCEPT !.ret = s.Max_Info_Frames]

\* Called from the receive interrupt for every byte
\* A variant that passes every non-zero rate on to the transport
set_baud_rate_any(s, baud) ==
    IF baud # 0
    THEN [RS485_Set_Baud_Rate(s, baud) EXCEPT !.ret = 1]
    ELSE [s EXCEPT !.ret = 0]

dlmstp_set_baud_rate(s, baud) ==
    CASE baud = 9600 -> [RS485_Set_Baud_Rate(s, baud) EXCEPT !.ret = 1]
      [] baud = 19200 -> [RS485_Set_Baud_Rate(s, baud) EXCEPT !.ret = 1]
      [] baud = 38400 -> [RS485_Set_Baud_Rate(s, baud) EXCEPT !.ret = 1]
      [] baud = 57600 -> [RS485_Set_Baud_Rate(s, baud) EXCEPT !.ret = 1]
      [] baud = 76800 -> [RS485_Set_Baud_Rate(s, baud) EXCEPT !.ret = 1]
      [] baud = 115200 -> [RS485_Set_Baud_Rate(s, baud) EXCEPT !.ret = 1]
      [] OTHER -> [s EXCEPT !.ret = 0]

dlmstp_baud_rate(s) == [s EXCEPT !.ret = 19200]

dlmstp_rs485_rx_event(s) == [s EXCEPT !.MSTP_Port.SilenceTimer = 0]


(***************************************************************************)
(* device.c: the Device object's instance number, a uint32_t               *)
(***************************************************************************)
Device_Object_Instance_Number(s) == [s EXCEPT !.ret32 = s.Device_Object_Instance]

\* A variant that stops one short of the largest instance number
Set_Object_Instance_below_max(s, instance) ==
    IF Gt32(U32Of(BACNET_MAX_INSTANCE), instance)
    THEN [dlmstp_set_mac_address([s EXCEPT !.Device_Object_Instance = instance],
                                 instance.lo % 128)
            EXCEPT !.ret = 1]
    ELSE [s EXCEPT !.ret = 0]

\* A variant that keeps eight bits of the instance number for the address
Set_Object_Instance_eight_bits(s, instance) ==
    IF Ge32(U32Of(BACNET_MAX_INSTANCE), instance)
    THEN [dlmstp_set_mac_address([s EXCEPT !.Device_Object_Instance = instance],
                                 instance.lo % 256)
            EXCEPT !.ret = 1]
    ELSE [s EXCEPT !.ret = 0]

Device_Set_Object_Instance_Number(s, instance) ==
    IF Ge32(U32Of(BACNET_MAX_INSTANCE), instance)
    THEN [dlmstp_set_mac_address([s EXCEPT !.Device_Object_Instance = instance],
                                 instance.lo % 128)
            EXCEPT !.ret = 1]
    ELSE [s EXCEPT !.ret = 0]

(***************************************************************************)
(* bo.c: the Binary Output objects and their priority arrays               *)
(***************************************************************************)
Binary_Output_Init(s) ==
    [s EXCEPT !.BO_Data =
        [ i \in 0..(MAX_BINARY_OUTPUTS - 1) |->
            [ Present_Value |-> BINARY_INACTIVE,
              Relinquish_Default |-> BINARY_INACTIVE,
              Priority_Array |->
                  [ j \in 0..(BACNET_PRIORITY_ARRAY_SIZE - 1) |-> BINARY_INACTIVE ],
              Priority_Active |->
                  [ j \in 0..(BACNET_PRIORITY_ARRAY_SIZE - 1) |-> FALSE ],
              Out_Of_Service |-> FALSE, Changed |-> FALSE,
              Minimum_Off_Time_ms |-> U32Of(0), Minimum_On_Time_ms |-> U32Of(0),
              Time_Of_State_Count_Change_ms |-> s.millisecond_counter,
              Last_State |-> BINARY_INACTIVE ] ]]

\* The object moves to new_value: the state it leaves and the time are kept
BO_Update(s, index, new_value) ==
    IF s.BO_Data[index].Present_Value # new_value
    THEN [s EXCEPT !.BO_Data[index].Last_State = s.BO_Data[index].Present_Value,
                   !.BO_Data[index].Present_Value = new_value,
                   !.BO_Data[index].Time_Of_State_Count_Change_ms =
                       s.millisecond_counter]
    ELSE s

\* The value the slot `priority` asks for, unless the object has not yet
\* stayed in its state for the minimum on or off time
BO_Apply(s, index, priority, time_in_state) ==
    IF \/ /\ s.BO_Data[index].Last_State = BINARY_ACTIVE
          /\ s.BO_Data[index].Priority_Array[priority] = BINARY_INACTIVE
          /\ Gt32(s.BO_Data[index].Minimum_On_Time_ms, time_in_state)
       \/ /\ s.BO_Data[index].Last_State = BINARY_INACTIVE
          /\ s.BO_Data[index].Priority_Array[priority] = BINARY_ACTIVE
          /\ Gt32(s.BO_Data[index].Minimum_Off_Time_ms, time_in_state)
    THEN s
    ELSE BO_Update(s, index, s.BO_Data[index].Priority_Array[priority])

BO_Active(s, index) ==
    { p \in 0..(BACNET_PRIORITY_ARRAY_SIZE - 1) : s.BO_Data[index].Priority_Active[p] }

\* A variant whose loop runs from the last slot down
Calculate_from_last_slot(s, index) ==
    IF index < MAX_BINARY_OUTPUTS
    THEN IF BO_Active(s, index) # {}
         THEN BO_Apply(s, index,
                  CHOOSE p \in BO_Active(s, index) :
                      \A q \in BO_Active(s, index) : p >= q,
                  Sub32(s.millisecond_counter,
                        s.BO_Data[index].Time_Of_State_Count_Change_ms))
         ELSE BO_Update(s, index, s.BO_Data[index].Relinquish_Default)
    ELSE s

Binary_Output_Present_Value_Calculate(s, index) ==
    IF index < MAX_BINARY_OUTPUTS
    THEN IF BO_Active(s, index) # {}
         THEN BO_Apply(s, index,
                  CHOOSE p \in BO_Active(s, index) :
                      \A q \in BO_Active(s, index) : p <= q,
                  Sub32(s.millisecond_counter,
                        s.BO_Data[index].Time_Of_State_Count_Change_ms))
         ELSE BO_Update(s, index, s.BO_Data[index].Relinquish_Default)
    ELSE s

Binary_Output_Instance_To_Index(object_instance) ==
    IF object_instance < MAX_BINARY_OUTPUTS THEN object_instance
    ELSE MAX_BINARY_OUTPUTS

Binary_Output_Present_Value(s, object_instance) ==
    IF Binary_Output_Instance_To_Index(object_instance) < MAX_BINARY_OUTPUTS
    THEN [s EXCEPT !.ret =
              s.BO_Data[Binary_Output_Instance_To_Index(object_instance)].Present_Value]
    ELSE [s EXCEPT !.ret = BINARY_INACTIVE]

\* The change-of-value check after a recalculation
BO_Check_COV(s, index, prior_value) ==
    [s EXCEPT !.BO_Data[index].Changed =
                  IF prior_value # s.BO_Data[index].Present_Value THEN TRUE ELSE @,
              !.ret = 1]

\* The direct write of an object that is out of service
BO_Direct_Write(s, index, value) ==
    [(IF s.BO_Data[index].Present_Value # value
      THEN [BO_Update(s, index, value) EXCEPT !.BO_Data[index].Changed = TRUE]
      ELSE s)
        EXCEPT !.ret = 1]

\* A variant that writes directly whether or not the object is out of service
Present_Value_Set_always_direct(s, object_instance, value, priority) ==
    IF Binary_Output_Instance_To_Index(object_instance) < MAX_BINARY_OUTPUTS
    THEN IF priority # 0 /\ priority <= BACNET_PRIORITY_ARRAY_SIZE
         THEN BO_Check_COV(
                  Binary_Output_Present_Value_Calculate(
                      [s EXCEPT !.BO_Data[object_instance].Priority_Array[priority - 1] = value,
                                !.BO_Data[object_instance].Priority_Active[priority - 1] = TRUE],
                      object_instance),
                  object_instance, s.BO_Data[object_instance].Present_Value)
         ELSE BO_Direct_Write(s, object_instance, value)
    ELSE [s EXCEPT !.ret = 0]

Binary_Output_Present_Value_Set(s, object_instance, value, priority) ==
    IF Binary_Output_Instance_To_Index(object_instance) < MAX_BINARY_OUTPUTS
    THEN IF priority # 0 /\ priority <= BACNET_PRIORITY_ARRAY_SIZE
         THEN BO_Check_COV(
                  Binary_Output_Present_Value_Calculate(
                      [s EXCEPT !.BO_Data[object_instance].Priority_Array[priority - 1] = value,
                                !.BO_Data[object_instance].Priority_Active[priority - 1] = TRUE],
                      object_instance),
                  object_instance, s.BO_Data[object_instance].Present_Value)
         ELSE IF s.BO_Data[object_instance].Out_Of_Service
              THEN BO_Direct_Write(s, object_instance, value)
              ELSE [s EXCEPT !.ret = 0]
    ELSE [s EXCEPT !.ret = 0]

\* A variant that raises the change flag on every accepted relinquish
Relinquish_always_flags(s, object_instance, priority) ==
    IF /\ Binary_Output_Instance_To_Index(object_instance) < MAX_BINARY_OUTPUTS
       /\ priority # 0 /\ priority <= BACNET_PRIORITY_ARRAY_SIZE
    THEN [Binary_Output_Present_Value_Calculate(
              [s EXCEPT !.BO_Data[object_instance].Priority_Active[priority - 1] = FALSE],
              object_instance)
            EXCEPT !.BO_Data[object_instance].Changed = TRUE, !.ret = 1]
    ELSE [s EXCEPT !.ret = 0]

Binary_Output_Present_Value_Relinquish(s, object_instance, priority) ==
    IF /\ Binary_Output_Instance_To_Index(object_instance) < MAX_BINARY_OUTPUTS
       /\ priority # 0 /\ priority <= BACNET_PRIORITY_ARRAY_SIZE
    THEN BO_Check_COV(
             Binary_Output_Present_Value_Calculate(
                 [s EXCEPT !.BO_Data[object_instance].Priority_Active[priority - 1] = FALSE],
                 object_instance),
             object_instance, s.BO_Data[object_instance].Present_Value)
    ELSE [s EXCEPT !.ret = 0]

Binary_Output_Out_Of_Service_Set(s, object_instance, oos_flag) ==
    IF Binary_Output_Instance_To_Index(object_instance) < MAX_BINARY_OUTPUTS
    THEN [s EXCEPT !.BO_Data[object_instance].Out_Of_Service = oos_flag]
    ELSE s

Binary_Output_Relinquish_Default_Set(s, object_instance, value) ==
    IF Binary_Output_Instance_To_Index(object_instance) < MAX_BINARY_OUTPUTS
    THEN [s EXCEPT !.BO_Data[object_instance].Relinquish_Default = value, !.ret = 1]
    ELSE [s EXCEPT !.ret = 0]

Binary_Output_Change_Of_Value(s, object_instance) ==
    IF Binary_Output_Instance_To_Index(object_instance) < MAX_BINARY_OUTPUTS
    THEN [s EXCEPT !.ret = IF s.BO_Data[object_instance].Changed THEN 1 ELSE 0]
    ELSE [s EXCEPT !.ret = 0]

Binary_Output_Change_Of_Value_Clear(s, object_instance) ==
    IF Binary_Output_Instance_To_Index(object_instance) < MAX_BINARY_OUTPUTS
    THEN [s EXCEPT !.BO_Data[object_instance].Changed = FALSE]
    ELSE s

(***************************************************************************)
(* dlmstp.c: the callbacks the MS/TP state machines use                    *)
(***************************************************************************)
\* Writing n bytes at the start of a static buffer keeps what lies behind them
Overwrite(buffer, bytes) ==
    bytes \o SubSeq(buffer, Len(bytes) + 1, Len(buffer))

MSTP_Get_Send(s, timeout) ==
    LET Returned(r) == [r EXCEPT !.get_send = Append(@, r.ret)]
        Staged(frame) ==
            IF Len(frame) > 0
            THEN [s EXCEPT !.MSTP_Port.OutputBuffer =
                               Overwrite(s.MSTP_Port.OutputBuffer, frame),
                           !.Transmit_Packet.ready = FALSE,
                           !.ret = Len(frame)]
            ELSE [s EXCEPT !.ret = 0]
    IN  Returned(
            IF s.Transmit_Packet.ready
            THEN Staged(MSTP_Create_Frame(s.MSTP_Port.OutputBufferSize,
                            s.Transmit_Packet.frame_type,
                            s.Transmit_Packet.destination,
                            s.MSTP_Port.This_Station,
                            s.Transmit_Packet.pdu,
                            s.Transmit_Packet.pdu_len))
            ELSE [s EXCEPT !.ret = 0])

\* A callback that hands on seven of the eight bits
Get_Receive_seven_bits(s) ==
    LET Got(s1) ==
            IF s1.ret = 1
            THEN [s1 EXCEPT !.MSTP_Port.DataRegister = s1.out_byte % 128,
                            !.MSTP_Port.DataAvailable = TRUE,
                            !.ret = 1]
            ELSE [s1 EXCEPT !.MSTP_Port.DataAvailable = FALSE, !.ret = 0]
    IN  IF RS485_DataAvailable(s)
        THEN Got(RS485_Receive(s))
        ELSE [s EXCEPT !.MSTP_Port.DataAvailable = FALSE, !.ret = 0]

\* A variant that shows the byte at the head of the FIFO and leaves it there
Get_Receive_leaves_byte(s) ==
    IF RS485_DataAvailable(s)
    THEN [s EXCEPT !.MSTP_Port.DataRegister = FIFO_Peek(s.rx_fifo),
                   !.MSTP_Port.DataAvailable = TRUE,
                   !.ret = 1]
    ELSE [s EXCEPT !.MSTP_Port.DataAvailable = FALSE, !.ret = 0]

MSTP_Get_Receive(s) ==
    LET Got(s1) ==
            IF s1.ret = 1
            THEN [s1 EXCEPT !.MSTP_Port.DataRegister = s1.out_byte,
                            !.MSTP_Port.DataAvailable = TRUE,
                            !.ret = 1]
            ELSE [s1 EXCEPT !.MSTP_Port.DataAvailable = FALSE, !.ret = 0]
    IN  IF RS485_DataAvailable(s)
        THEN Got(RS485_Receive(s))
        ELSE [s EXCEPT !.MSTP_Port.DataAvailable = FALSE, !.ret = 0]

\* The upper-layer handler: its calls are recorded
npdu_handler(s, src, pdu, pdu_len) ==
    [s EXCEPT !.npdu_handler =
        Append(s.npdu_handler,
               [ src |-> src, pdu |-> SubSeq(pdu, 1, pdu_len), pdu_len |-> pdu_len ])]

\* A variant that does not look at the destination address
Put_Receive_any_destination(s) ==
    LET port == s.MSTP_Port
        Returned(r) == [r EXCEPT !.put_receive = Append(@, r.ret)]
        Counted(s1) == [s1 EXCEPT !.Valid_Frame_Count = U32(s.Valid_Frame_Count + 1)]
        source == Address(1, port.SourceAddress, 0)
    IN  Returned(Counted(
            IF port.FrameType \in { FRAME_TYPE_BACNET_DATA_NOT_EXPECTING_REPLY,
                                    FRAME_TYPE_BACNET_DATA_EXPECTING_REPLY }
            THEN IF port.DataLength > 0
                 THEN npdu_handler([s EXCEPT !.Receive_Address = source,
                                             !.Receive_PDU_Len = port.DataLength,
                                             !.ret = port.DataLength],
                                   source, port.InputBuffer, port.DataLength)
                 ELSE [s EXCEPT !.ret = 0]
            ELSE IF port.FrameType = FRAME_TYPE_TEST_REQUEST
            THEN [s EXCEPT !.ret = port.DataLength]
            ELSE [s EXCEPT !.ret = 0]))

MSTP_Put_Receive(s) ==
    LET port == s.MSTP_Port
        Returned(r) == [r EXCEPT !.put_receive = Append(@, r.ret)]
        Counted(s1) == [s1 EXCEPT !.Valid_Frame_Count = U32(s.Valid_Frame_Count + 1)]
        source == Address(1, port.SourceAddress, 0)
    IN  Returned(
            IF port.DestinationAddress = port.This_Station
               \/ port.DestinationAddress = MSTP_BROADCAST_ADDRESS
            THEN Counted(
                     IF port.FrameType \in { FRAME_TYPE_BACNET_DATA_NOT_EXPECTING_REPLY,
                                             FRAME_TYPE_BACNET_DATA_EXPECTING_REPLY }
                     THEN IF port.DataLength > 0
                          THEN npdu_handler([s EXCEPT !.Receive_Address = source,
                                                      !.Receive_PDU_Len = port.DataLength,
                                                      !.ret = port.DataLength],
                                            source, port.InputBuffer, port.DataLength)
                          ELSE [s EXCEPT !.ret = 0]
                     ELSE IF port.FrameType = FRAME_TYPE_TEST_REQUEST
                     THEN [s EXCEPT !.ret = port.DataLength]
                     ELSE [s EXCEPT !.ret = 0])
            ELSE [s EXCEPT !.ret = 0])

\* A variant that hands the frame to the transport without asking
Send_Frame_unasked(s, buffer, nbytes) == RS485_Send_Frame(s, buffer, nbytes)

MSTP_Send_Frame(s, buffer, nbytes) ==
    IF RS485_Transmit_Ready(s) THEN RS485_Send_Frame(s, buffer, nbytes) ELSE s

MSTP_SilenceTimer(s) == mstimer_now(s)

MSTP_SilenceTimerReset(s) == s

\* Stub of the port: there is never a reply ready
MSTP_Get_Reply(s, timeout) == [s EXCEPT !.ret = 0]


(***************************************************************************)
(* The receive-frame state machine of the library, one call: it pulls one  *)
(* byte through MSTP_Get_Receive and advances preamble search, header,     *)
(* header CRC, data and data CRC.  A frame whose CRCs validate is flagged  *)
(* ReceivedValidFrame, any failed check ReceivedInvalidFrame, and the      *)
(* machine returns to preamble search.                                     *)
(***************************************************************************)
\* The data CRC of a frame received whole leaves this remainder in the register
Data_CRC_any(crc) == TRUE

Data_CRC_good(crc) == crc = 61624

ReceiveByte(p) ==
    LET b == p.DataRegister
        q == [p EXCEPT !.DataAvailable = FALSE]
        Header(crc) ==
            LET h == [q EXCEPT !.HeaderCRC = crc, !.Index = p.Index + 1]
            IN  CASE p.Index = 0 -> [h EXCEPT !.FrameType = b]
                  [] p.Index = 1 -> [h EXCEPT !.DestinationAddress = b]
                  [] p.Index = 2 -> [h EXCEPT !.SourceAddress = b]
                  [] p.Index = 3 -> [h EXCEPT !.DataLength = b * 256]
                  [] p.Index = 4 -> [h EXCEPT !.DataLength = p.DataLength + b]
                  [] OTHER ->
                       IF crc # 85
                       THEN [h EXCEPT !.ReceivedInvalidFrame = TRUE,
                                      !.receive_state = "IDLE"]
                       ELSE IF p.DataLength = 0
                       THEN [h EXCEPT !.ReceivedValidFrame = TRUE,
                                      !.receive_state = "IDLE"]
                       ELSE IF p.DataLength <= p.InputBufferSize
                       THEN [h EXCEPT !.receive_state = "DATA", !.Index = 0,
                                      !.DataCRC = 65535]
                       ELSE [h EXCEPT !.ReceivedInvalidFrame = TRUE,
                                      !.receive_state = "IDLE"]
        \* the payload, then the two CRC octets
        Data(crc) ==
            LET d == [q EXCEPT !.DataCRC = crc, !.Index = p.Index + 1]
            IN  IF p.Index < p.DataLength
                THEN [d EXCEPT !.InputBuffer =
                          SubSeq(p.InputBuffer, 1, p.Index) \o << b >>
                          \o SubSeq(p.InputBuffer, p.Index + 2, Len(p.InputBuffer))]
                ELSE IF p.Index = p.DataLength THEN d
                ELSE IF Data_CRC_good(crc)
                THEN [d EXCEPT !.ReceivedValidFrame = TRUE, !.receive_state = "IDLE"]
                ELSE [d EXCEPT !.ReceivedInvalidFrame = TRUE, !.receive_state = "IDLE"]
    IN  CASE p.receive_state = "IDLE" ->
                 IF b = 85 THEN [q EXCEPT !.receive_state = "PREAMBLE"] ELSE q
          [] p.receive_state = "PREAMBLE" ->
                 IF b = 255
                 THEN [q EXCEPT !.receive_state = "HEADER", !.Index = 0, !.HeaderCRC = 255]
                 ELSE IF b = 85 THEN q
                 ELSE [q EXCEPT !.receive_state = "IDLE"]
          [] p.receive_state = "HEADER" -> Header(CRC_Calc_Header(b, p.HeaderCRC))
          [] OTHER -> Data(CRC_Calc_Data(b, p.DataCRC))

\* A port whose ReceiveError is set drops what it has of the frame
ReceiveErrorSeen(p) ==
    [p EXCEPT !.ReceiveError = FALSE,
              !.ReceivedInvalidFrame = @ \/ p.receive_state \in { "HEADER", "DATA" },
              !.receive_state = "IDLE"]

\* s.presented records the bytes the machine found in DataRegister with
\* DataAvailable set
MSTP_Receive_Frame_FSM(s) ==
    LET Polled(s1) ==
            IF s1.MSTP_Port.ReceiveError
            THEN MSTP_SilenceTimerReset([s1 EXCEPT !.MSTP_Port = ReceiveErrorSeen(s1.MSTP_Port)])
            ELSE IF s1.MSTP_Port.DataAvailable
            THEN MSTP_SilenceTimerReset(
                     [s1 EXCEPT !.MSTP_Port = ReceiveByte(s1.MSTP_Port),
                                !.presented = Append(@, s1.MSTP_Port.DataRegister)])
            ELSE s1
    IN  Polled(MSTP_Get_Receive(s))

(***************************************************************************)
(* The master-node state machine of the library, one call.  The result is  *)
(* the memory it leaves and whether it asks to be run again at once.       *)
(***************************************************************************)
MSTP_Create_And_Send_Frame(s, frame_type, destination, data, data_len) ==
    LET Send(frame) ==
            IF Len(frame) > 0
            THEN MSTP_Send_Frame(
                     [s EXCEPT !.MSTP_Port.OutputBuffer =
                                   Overwrite(s.MSTP_Port.OutputBuffer, frame)],
                     frame, Len(frame))
            ELSE s
    IN  Send(MSTP_Create_Frame(s.MSTP_Port.OutputBufferSize, frame_type, destination,
                               s.MSTP_Port.This_Station, data, data_len))

\* The next address to poll after a, skipping this station when it can
PlainNext(port, a) == (a + 1) % (port.Nmax_master + 1)

NextPoll(port, a) ==
    LET n == PlainNext(port, a)
    IN  IF n = port.This_Station THEN PlainNext(port, n) ELSE n

Step(s, master_state, again) ==
    [ s |-> [s EXCEPT !.MSTP_Port.master_state = master_state], again |-> again ]

SendPollForMaster(s) ==
    LET To(poll) ==
            MSTP_Create_And_Send_Frame([s EXCEPT !.MSTP_Port.Poll_Station = poll],
                                       FRAME_TYPE_POLL_FOR_MASTER, poll, << >>, 0)
    IN  To(NextPoll(s.MSTP_Port, s.MSTP_Port.Poll_Station))

SendToken(s) ==
    MSTP_Create_And_Send_Frame(s, FRAME_TYPE_TOKEN, s.MSTP_Port.Next_Station, << >>, 0)


ClearFrame(s) ==
    [s EXCEPT !.MSTP_Port.ReceivedValidFrame = FALSE,
              !.MSTP_Port.ReceivedInvalidFrame = FALSE]

\* IDLE with a validated frame: it is handed to MSTP_Put_Receive, then the
\* frames of the token protocol addressed to this station are answered.
IdleFrame(s) ==
    LET Handle(s1) ==
            LET port == s1.MSTP_Port
                mine == port.DestinationAddress = port.This_Station
            IN  IF mine /\ port.FrameType = FRAME_TYPE_TOKEN
                THEN Step(ClearFrame([s1 EXCEPT !.MSTP_Port.FrameCount = 0,
                                                !.MSTP_Port.SoleMaster = FALSE]),
                          "USE_TOKEN", TRUE)
                ELSE IF mine /\ port.FrameType = FRAME_TYPE_POLL_FOR_MASTER
                THEN Step(ClearFrame(MSTP_Create_And_Send_Frame(s1,
                              FRAME_TYPE_REPLY_TO_POLL_FOR_MASTER, port.SourceAddress,
                              << >>, 0)),
                          "IDLE", FALSE)
                ELSE IF mine /\ port.FrameType = FRAME_TYPE_TEST_REQUEST
                THEN Step(ClearFrame(MSTP_Create_And_Send_Frame(s1,
                              FRAME_TYPE_TEST_RESPONSE, port.SourceAddress,
                              port.InputBuffer, port.DataLength)),
                          "IDLE", FALSE)
                ELSE IF mine /\ port.FrameType = FRAME_TYPE_BACNET_DATA_EXPECTING_REPLY
                THEN Step(s1, "ANSWER_DATA_REQUEST", FALSE)
                ELSE Step(ClearFrame(s1), "IDLE", FALSE)
    IN  Handle(MSTP_Put_Receive(s))

\* USE_TOKEN: the frame MSTP_Get_Send staged in the output buffer goes to
\* MSTP_Send_Frame
UseToken(s) ==
    LET Sent(s2, port) ==
            LET frame_type == port.OutputBuffer[3]
                destination == port.OutputBuffer[4]
                s3 == [s2 EXCEPT !.MSTP_Port.FrameCount = U8(port.FrameCount + 1)]
            IN  IF (frame_type = FRAME_TYPE_BACNET_DATA_EXPECTING_REPLY
                      /\ destination # MSTP_BROADCAST_ADDRESS)
                   \/ frame_type = FRAME_TYPE_TEST_REQUEST
                THEN Step(s3, "WAIT_FOR_REPLY", FALSE)
                ELSE Step(s3, "DONE_WITH_TOKEN", FALSE)
        Got(s1) ==
            IF s1.ret < 1
            THEN Step([s1 EXCEPT !.MSTP_Port.FrameCount = s1.MSTP_Port.Nmax_info_frames],
                      "DONE_WITH_TOKEN", TRUE)
            ELSE Sent(MSTP_Send_Frame(s1, SubSeq(s1.MSTP_Port.OutputBuffer, 1, s1.ret),
                                      s1.ret),
                      s1.MSTP_Port)
    IN  Got(MSTP_Get_Send(s, 0))

DoneWithToken(s) ==
    LET port == s.MSTP_Port
    IN  IF port.FrameCount < port.Nmax_info_frames
        THEN Step(s, "USE_TOKEN", TRUE)
        ELSE IF port.Next_Station = port.This_Station
        THEN Step(SendPollForMaster(s), "POLL_FOR_MASTER", FALSE)
        ELSE Step(SendToken(s), "PASS_TOKEN", FALSE)

PollForMaster(s) ==
    LET port == s.MSTP_Port
    IN  IF port.ReceivedValidFrame
        THEN IF port.DestinationAddress = port.This_Station
                /\ port.FrameType = FRAME_TYPE_REPLY_TO_POLL_FOR_MASTER
             THEN Step(SendToken(ClearFrame(
                          [s EXCEPT !.MSTP_Port.Next_Station = port.SourceAddress,
                                    !.MSTP_Port.Poll_Station = port.This_Station,
                                    !.MSTP_Port.SoleMaster = FALSE])),
                       "PASS_TOKEN", FALSE)
             ELSE Step(s, "IDLE", TRUE)
        ELSE IF Gt32(MSTP_SilenceTimer(s), U32Of(Tusage_timeout)) \/ port.ReceivedInvalidFrame
        THEN IF port.SoleMaster
             THEN Step(ClearFrame([s EXCEPT !.MSTP_Port.FrameCount = 0]),
                       "USE_TOKEN", TRUE)
             ELSE IF port.Next_Station # port.This_Station
             THEN Step(SendToken(ClearFrame(s)), "PASS_TOKEN", FALSE)
             ELSE IF PlainNext(port, port.Poll_Station) # port.This_Station
             THEN Step(SendPollForMaster(ClearFrame(s)), "POLL_FOR_MASTER", FALSE)
             ELSE Step(ClearFrame([s EXCEPT !.MSTP_Port.SoleMaster = TRUE,
                                            !.MSTP_Port.Poll_Station = port.This_Station,
                                            !.MSTP_Port.FrameCount = 0]),
                       "USE_TOKEN", TRUE)
        ELSE Step(s, "POLL_FOR_MASTER", FALSE)

WaitForReply(s) ==
    LET port == s.MSTP_Port
    IN  IF Ge32(MSTP_SilenceTimer(s), U32Of(Treply_timeout))
        THEN Step([s EXCEPT !.MSTP_Port.FrameCount = port.Nmax_info_frames],
                  "DONE_WITH_TOKEN", TRUE)
        ELSE IF port.ReceivedInvalidFrame
        THEN Step(ClearFrame(s), "DONE_WITH_TOKEN", TRUE)
        ELSE IF port.ReceivedValidFrame
        THEN IF port.DestinationAddress = port.This_Station
                /\ port.FrameType \in { FRAME_TYPE_BACNET_DATA_NOT_EXPECTING_REPLY,
                                        FRAME_TYPE_REPLY_POSTPONED,
                                        FRAME_TYPE_TEST_RESPONSE }
             THEN Step(ClearFrame(MSTP_Put_Receive(s)), "DONE_WITH_TOKEN", TRUE)
             ELSE Step(s, "IDLE", TRUE)
        ELSE Step(s, "WAIT_FOR_REPLY", FALSE)

AnswerDataRequest(s) ==
    LET Reply(s1) ==
            IF Gt32(MSTP_SilenceTimer(s1), U32Of(Treply_delay))
            THEN Step(ClearFrame(MSTP_Create_And_Send_Frame(s1,
                          FRAME_TYPE_REPLY_POSTPONED, s1.MSTP_Port.SourceAddress,
                          << >>, 0)),
                      "IDLE", FALSE)
            ELSE Step(s1, "ANSWER_DATA_REQUEST", FALSE)
    IN  Reply(MSTP_Get_Reply(s, 0))

MSTP_Master_Node_FSM(s) ==
    LET port == s.MSTP_Port
        st == port.master_state
    IN  CASE st = "INITIALIZE" ->
                 Step([s EXCEPT !.MSTP_Port.Next_Station = port.This_Station,
                                !.MSTP_Port.Poll_Station = port.This_Station,
                                !.MSTP_Port.SoleMaster = FALSE],
                      "IDLE", TRUE)
          [] st = "IDLE" ->
                 IF port.ReceivedInvalidFrame THEN Step(ClearFrame(s), "IDLE", FALSE)
                 ELSE IF port.ReceivedValidFrame THEN IdleFrame(s)
                 ELSE IF Ge32(MSTP_SilenceTimer(s), U32Of(Tno_token)) THEN Step(s, "NO_TOKEN", TRUE)
                 ELSE Step(s, "IDLE", FALSE)
          [] st = "NO_TOKEN" ->
                 IF port.ReceivedValidFrame \/ port.ReceivedInvalidFrame
                 THEN Step(s, "IDLE", TRUE)
                 ELSE IF Ge32(MSTP_SilenceTimer(s), U32Of(Tno_token + (Tslot * port.This_Station)))
                 THEN Step(SendPollForMaster(
                               [s EXCEPT !.MSTP_Port.Next_Station = port.This_Station,
                                         !.MSTP_Port.Poll_Station = port.This_Station]),
                           "POLL_FOR_MASTER", FALSE)
                 ELSE Step(s, "NO_TOKEN", FALSE)
          [] st = "USE_TOKEN" -> UseToken(s)
          [] st = "DONE_WITH_TOKEN" -> DoneWithToken(s)
          [] st = "PASS_TOKEN" ->
                 IF port.ReceivedValidFrame \/ port.ReceivedInvalidFrame
                    \/ Gt32(MSTP_SilenceTimer(s), U32Of(Tusage_timeout))
                 THEN Step(s, "IDLE", TRUE)
                 ELSE Step(s, "PASS_TOKEN", FALSE)
          [] st = "POLL_FOR_MASTER" -> PollForMaster(s)
          [] st = "WAIT_FOR_REPLY" -> WaitForReply(s)
          [] OTHER -> AnswerDataRequest(s)

(***************************************************************************)
(* dlmstp_task: the receive machine once, then the master machine for as   *)
(* long as it asks to be run again, when this station is a master          *)
(***************************************************************************)
\* s.fsm_runs counts the runs of each machine in the call in progress and
\* keeps what the master machine returned last
RECURSIVE MasterLoop(_)
MasterLoop(s) ==
    LET Again(r) ==
            IF r.again
            THEN MasterLoop([r.s EXCEPT !.fsm_runs.master = @ + 1,
                                        !.fsm_runs.again = TRUE])
            ELSE [r.s EXCEPT !.fsm_runs.master = @ + 1, !.fsm_runs.again = FALSE]
    IN  Again(MSTP_Master_Node_FSM(s))

\* A variant that runs the master machine whatever the station address
task_master_always(s) ==
    MasterLoop([MSTP_Receive_Frame_FSM(s) EXCEPT !.fsm_runs.receive = @ + 1])

dlmstp_task(s) ==
    LET Master(s1) == IF s1.This_Station <= s1.Max_Master THEN MasterLoop(s1) ELSE s1
    IN  Master([MSTP_Receive_Frame_FSM(s) EXCEPT !.fsm_runs.receive = @ + 1])


(***************************************************************************)
(* UART1 interrupt, rs485.c: one received byte, or the transmitter asking  *)
(* for the next byte                                                       *)
(***************************************************************************)
UART1Handler_RX(s, data) ==
    dlmstp_rs485_rx_event(
        [Read_U1RXREG(s) EXCEPT
            !.rx_bytes = U32(s.rx_bytes + 1),
            !.rx_fifo = FIFO_Put(s.rx_fifo, data),
            !.rx_timestamp[s.rx_timestamp_head + 1] = s.millisecond_counter,
            !.rx_timestamp_head = (s.rx_timestamp_head + 1) % BACNET_RX_FIFO_SIZE])

UART1Handler_TX(s) ==
    IF s.tx_count > 0
    THEN [s EXCEPT !.U1TXREG = Append(s.U1TXREG, s.tx_buffer[s.tx_pos + 1]),
                   !.tx_pos = s.tx_pos + 1,
                   !.tx_count = s.tx_count - 1]
    ELSE [s EXCEPT !.U1TXIE = FALSE,
                   !.driver_enable = FALSE,
                   !.transmitting = FALSE]

\* The error branch, which every run of the handler ends with: the result of
\* RS485_ReceiveError is not used
UART1Handler_Error(s) ==
    IF s.U1EIF
    THEN [RS485_ReceiveError([s EXCEPT !.U1EIF = FALSE]) EXCEPT !.ret = s.ret]
    ELSE s

(***************************************************************************)
(* The environment: what the upper layer passes in and what other          *)
(* stations put on the bus                                                 *)
(***************************************************************************)
Fill(b, n) == [i \in 1..n |-> b]

\* The caller's buffer for a given length: its content tells the PDUs apart
PduOf(len) == IF len = 2 THEN Buffer(Fill(187, 2)) ELSE Buffer(Fill(170, len))

Unicast == Address(1, 10, 0)
Broadcast == Address(1, MSTP_BROADCAST_ADDRESS, BACNET_BROADCAST_NETWORK)

SendArg(dest, npdu_data, pdu, pdu_len) ==
    [ dest |-> dest, npdu_data |-> npdu_data, pdu |-> pdu, pdu_len |-> pdu_len ]

\* What the upper layer calls dlmstp_send_pdu with
SendArgs ==
    { SendArg(Unicast, NpduData(TRUE), PduOf(1), 1),
      SendArg(Broadcast, NULL, PduOf(2), 2),
      SendArg(NULL, NpduData(FALSE), PduOf(1), 1),
      SendArg(Unicast, NpduData(FALSE), PduOf(MAX_MPDU), MAX_MPDU),
      SendArg(Unicast, NpduData(FALSE), NULL, 1),
      SendArg(Unicast, NpduData(FALSE), PduOf(1), 0),
      SendArg(Unicast, NpduData(FALSE), PduOf(MAX_MPDU + 1), MAX_MPDU + 1) }

\* While the station runs, and when only the facade is configured
MaxInfoFramesInputs == { 0, 2 }
ConfigMacInputs == { 0, 1, 2, 127, 128, 200, 254, 255 }
ConfigMaxMasterInputs == { 0, 1, 127, 128, 255 }
ConfigMaxInfoFramesInputs == { 0, 1, 2, 255 }
TickBursts == { 600 }

FramesFrom3(fs) ==
    { MSTP_Create_Frame(MAX_MPDU, f[1], f[2], 3, f[3], Len(f[3])) : f \in fs }

\* The frame that gives this station the token
TokenFrames == FramesFrom3({ << FRAME_TYPE_TOKEN, 1, << >> >> })

PeerFrames ==
    FramesFrom3({ << FRAME_TYPE_TOKEN, 1, << >> >>,
                  << FRAME_TYPE_TOKEN, 4, << >> >>,
                  << FRAME_TYPE_POLL_FOR_MASTER, 1, << >> >>,
                  << FRAME_TYPE_REPLY_TO_POLL_FOR_MASTER, 1, << >> >>,
                  << FRAME_TYPE_TEST_REQUEST, 1, << 9 >> >>,
                  << FRAME_TYPE_BACNET_DATA_NOT_EXPECTING_REPLY, 1, << 7 >> >>,
                  << FRAME_TYPE_BACNET_DATA_NOT_EXPECTING_REPLY, 1, << >> >>,
                  << FRAME_TYPE_BACNET_DATA_NOT_EXPECTING_REPLY, 4, << 7 >> >>,
                  << FRAME_TYPE_BACNET_DATA_EXPECTING_REPLY, MSTP_BROADCAST_ADDRESS, << 8 >> >>,
                  << FRAME_TYPE_BACNET_DATA_EXPECTING_REPLY, 1, << 8 >> >> })

\* Every call starts with a clean result and clean records of what the
\* collaborators saw.
Begin(s) ==
    [s EXCEPT !.ret = 0, !.out_address = Address(0, 0, 0), !.out_byte = 0,
              !.out_timestamp = U32Of(0), !.ret32 = U32Of(0),
              !.frames_sent = << >>, !.npdu_handler = << >>,
              !.fsm_runs = [ receive |-> 0, master |-> 0, again |-> FALSE ],
              !.waited = FALSE, !.presented = << >>,
              !.get_send = << >>, !.put_receive = << >>]

NoArg == [ a |-> 0 ]

\* main() brings the datalink up before its loop runs
Up == env.up

\* Nothing on the bus, no budget spent, nothing recorded
Env0 ==
    [ up |-> FALSE, wire |-> << >>, peer_frames |-> 0, sends |-> 0,
      ticks |-> 0, configs |-> 0, trapped |-> FALSE,
      arrivals |-> 0, queued |-> << >>,
      errors |-> 0, unseen |-> FALSE, error_frame |-> 0,
      armed |-> FALSE, since |-> 0,
      holding |-> FALSE, held |-> 0, limit |-> 0,
      rejected |-> FALSE,
      applied |-> DEFAULT_BAUD ]

Init ==
    /\ m = Memory0
    /\ call = [ op |-> "start", arg |-> NoArg ]
    /\ env = Env0

Did(op, arg) == call' = [ op |-> op, arg |-> arg ]

Call_dlmstp_init ==
    /\ m' = dlmstp_init(Begin(m))
    /\ Did("dlmstp_init", NoArg)
    /\ env' = [env EXCEPT !.up = TRUE]

\* The one call main() makes at startup
Startup_dlmstp_init == ~Up /\ Call_dlmstp_init

Call_dlmstp_send_pdu ==
    \E a \in SendArgs :
        \E s \in { dlmstp_send_pdu(Begin(m), a.dest, a.npdu_data, a.pdu, a.pdu_len) } :
            /\ Up
            /\ env.sends < MaxSends
            /\ m' = s
            /\ Did("dlmstp_send_pdu",
                   [ null_dest |-> IsNull(a.dest), null_pdu |-> IsNull(a.pdu),
                     pdu_len |-> a.pdu_len ])
            /\ env' = [env EXCEPT !.sends = IF s.ret >= 0 THEN @ + 1 ELSE @]

Call_dlmstp_task ==
    \E s \in { dlmstp_task(Begin(m)) } :
        /\ Up
        /\ s.tx_bytes <= MaxTxBytes
        /\ m' = s
        /\ Did("dlmstp_task", NoArg)
        /\ UNCHANGED env

\* A setter called with one of inputs; counted calls spend the budget of
\* configuration changes when they change something
Set_mac_address(inputs, counted) ==
    \E mac_address \in inputs :
        \E s \in { dlmstp_set_mac_address(Begin(m), mac_address) } :
            /\ counted => env.configs < MaxConfig
            /\ m' = s
            /\ Did("dlmstp_set_mac_address", [ a |-> mac_address ])
            /\ env' = [env EXCEPT
                         !.configs = IF counted /\ s # Begin(m) THEN @ + 1 ELSE @]

Set_max_master(inputs, counted) ==
    \E max_master \in inputs :
        \E s \in { dlmstp_set_max_master(Begin(m), max_master) } :
            /\ counted => env.configs < MaxConfig
            /\ m' = s
            /\ Did("dlmstp_set_max_master", [ a |-> max_master ])
            /\ env' = [env EXCEPT
                         !.configs = IF counted /\ s # Begin(m) THEN @ + 1 ELSE @]

Set_max_info_frames(inputs, counted) ==
    \E max_info_frames \in inputs :
        \E s \in { dlmstp_set_max_info_frames(Begin(m), max_info_frames) } :
            /\ counted => env.configs < MaxConfig
            /\ m' = s
            /\ Did("dlmstp_set_max_info_frames", [ a |-> max_info_frames ])
            /\ env' = [env EXCEPT
                         !.configs = IF counted /\ s # Begin(m) THEN @ + 1 ELSE @]

Call_dlmstp_set_max_info_frames == Set_max_info_frames(MaxInfoFramesInputs, TRUE)

Config_dlmstp_set_mac_address == Set_mac_address(ConfigMacInputs, FALSE)

Every_dlmstp_set_mac_address == Set_mac_address(0..255, FALSE)

\* The address is set while the station takes part in the bus: to the one it
\* has, to another one, and to the one that is refused
Live_dlmstp_set_mac_address == Set_mac_address({ 1, 2, 255 }, TRUE)

\* Addresses the setter accepts that lie above every max_master
Slave_dlmstp_set_mac_address == Set_mac_address({ 128, 254 }, TRUE)

\* The range of masters is narrowed to exclude this station, and widened again
Live_dlmstp_set_max_master == Set_max_master({ 0, 127 }, TRUE)

Config_dlmstp_set_max_master == Set_max_master(ConfigMaxMasterInputs, FALSE)

Config_dlmstp_set_max_info_frames ==
    Set_max_info_frames(ConfigMaxInfoFramesInputs, FALSE)

Call_dlmstp_get_my_address ==
    /\ m' = dlmstp_get_my_address(Begin(m), Address(0, 0, 0))
    /\ Did("dlmstp_get_my_address", NoArg)
    /\ UNCHANGED env

Call_dlmstp_get_broadcast_address ==
    /\ m' = dlmstp_get_broadcast_address(Begin(m), Address(0, 0, 0))
    /\ Did("dlmstp_get_broadcast_address", NoArg)
    /\ UNCHANGED env

Call_dlmstp_mac_address ==
    /\ m' = dlmstp_mac_address(Begin(m))
    /\ Did("dlmstp_mac_address", NoArg)
    /\ UNCHANGED env

Call_dlmstp_max_master ==
    /\ m' = dlmstp_max_master(Begin(m))
    /\ Did("dlmstp_max_master", NoArg)
    /\ UNCHANGED env

Call_dlmstp_max_info_frames ==
    /\ m' = dlmstp_max_info_frames(Begin(m))
    /\ Did("dlmstp_max_info_frames", NoArg)
    /\ UNCHANGED env

\* The receiver takes no byte while its overrun latch is set
Interrupt_UART1_RX ==
    /\ m.U1RXIE
    /\ ~m.U1STA.OERR
    /\ env.wire # << >>
    /\ Len(m.rx_fifo) < MaxPending
    /\ m' = UART1Handler_Error(UART1Handler_RX(Begin(m), Head(env.wire)))
    /\ Did("UART1Handler_RX", [ a |-> Head(env.wire) ])
    /\ env' = [env EXCEPT !.wire = Tail(@)]

Interrupt_UART1_TX ==
    /\ m.U1TXIE
    /\ m' = UART1Handler_Error(UART1Handler_TX(Begin(m)))
    /\ Did("UART1Handler_TX", NoArg)
    /\ UNCHANGED env

Interrupt_Timer1 ==
    \E n \in TickBursts :
        /\ env.ticks < MaxTickEvents
        /\ m' = Timer1Ticks(Begin(m), n)
        /\ Did("Timer1Handler", [ a |-> n ])
        /\ env' = [env EXCEPT !.ticks = @ + 1]

\* Another station puts a whole frame on the idle bus
Peer(frames) ==
    \E frame \in frames :
        /\ Up
        /\ env.wire = << >>
        /\ env.peer_frames < MaxPeerFrames
        /\ env' = [env EXCEPT !.wire = frame, !.peer_frames = @ + 1]
        /\ Did("peer", NoArg)
        /\ UNCHANGED m

PeerSendsToken == Peer(TokenFrames)

PeerSends == Peer(PeerFrames)

(***************************************************************************)
(* Calls made on the transport itself                                      *)
(***************************************************************************)
\* The callbacks take the port pointer the state machine hands them:
\* &MSTP_Port, or NULL as in test_mstp_port_struct.  An access through the
\* NULL pointer is undefined: the processor traps on the address, or the
\* access goes to whatever lies there, so that a store is lost and a load
\* brings back what was left behind.
NullLoadLeaves == { 0, 255 }

StoreLost(s, r) == [r EXCEPT !.MSTP_Port = s.MSTP_Port]

MSTP_Get_Send_Outcomes(s, mstp_port, timeout) ==
    IF ~IsNull(mstp_port) \/ ~s.Transmit_Packet.ready
    THEN { [ memory |-> MSTP_Get_Send(s, timeout), trapped |-> FALSE ] }
    ELSE { [ memory |-> s, trapped |-> TRUE ] }
         \cup { [ memory |->
                    StoreLost(s, MSTP_Get_Send(
                        [s EXCEPT !.MSTP_Port.OutputBufferSize = v * 2,
                                  !.MSTP_Port.This_Station = v], timeout)),
                  trapped |-> FALSE ] : v \in NullLoadLeaves }

MSTP_Get_Receive_Outcomes(s, mstp_port) ==
    IF ~IsNull(mstp_port)
    THEN { [ memory |-> MSTP_Get_Receive(s), trapped |-> FALSE ] }
    ELSE { [ memory |-> s, trapped |-> TRUE ],
           [ memory |-> StoreLost(s, MSTP_Get_Receive(s)), trapped |-> FALSE ] }

MSTP_Put_Receive_Outcomes(s, mstp_port) ==
    IF ~IsNull(mstp_port)
    THEN { [ memory |-> MSTP_Put_Receive(s), trapped |-> FALSE ] }
    ELSE { [ memory |-> s, trapped |-> TRUE ] }
         \cup { [ memory |->
                    StoreLost(s, MSTP_Put_Receive(
                        [s EXCEPT !.MSTP_Port.DestinationAddress = d,
                                  !.MSTP_Port.This_Station = v,
                                  !.MSTP_Port.FrameType = v,
                                  !.MSTP_Port.DataLength = v,
                                  !.MSTP_Port.SourceAddress = v])),
                  trapped |-> FALSE ] : d \in NullLoadLeaves, v \in NullLoadLeaves }

\* The port pointer is not used
MSTP_Send_Frame_Outcomes(s, mstp_port, buffer, nbytes) ==
    { [ memory |-> MSTP_Send_Frame(s, buffer, nbytes), trapped |-> FALSE ] }

\* Nothing runs once the processor has trapped
Running == ~env.trapped

BaudInputs == { 0, 4800, 9600, 12345, 19200, 38400, 57600, 76800, 115200, 115201 }
TransportBaudInputs == { 0, 9600, 12345, 38400 }

\* env.queued is what the interrupt has put into the FIFO and the main loop
\* has not taken yet, each byte with the time at which it arrived
Call_RS485_Initialize ==
    /\ Running
    /\ m' = RS485_Initialize(Begin(m))
    /\ Did("RS485_Initialize", NoArg)
    /\ env' = [env EXCEPT !.queued = << >>]

Call_RS485_Set_Baud_Rate ==
    \E baud \in TransportBaudInputs :
        \E o \in RS485_Set_Baud_Rate_Outcomes(Begin(m), baud) :
            /\ Running
            /\ m' = o.memory
            /\ Did("RS485_Set_Baud_Rate", [ a |-> baud ])
            /\ env' = [env EXCEPT !.trapped = o.trapped]

Call_dlmstp_set_baud_rate ==
    \E baud \in BaudInputs :
        /\ Running
        /\ m' = dlmstp_set_baud_rate(Begin(m), baud)
        /\ Did("dlmstp_set_baud_rate", [ a |-> baud ])
        /\ env' = [env EXCEPT !.applied = IF m'.ret = 1 THEN baud ELSE @]

Call_dlmstp_baud_rate ==
    /\ Running
    /\ m' = dlmstp_baud_rate(Begin(m))
    /\ Did("dlmstp_baud_rate", NoArg)
    /\ UNCHANGED env

\* The caller's buffer and byte count
FrameInputs ==
    { [ buffer |-> << 1, 2, 3 >>, nbytes |-> 3 ],
      [ buffer |-> << 9 >>, nbytes |-> 1 ],
      [ buffer |-> << 1, 2, 3 >>, nbytes |-> 0 ],
      [ buffer |-> << 1, 2, 3 >>, nbytes |-> BACNET_TX_FIFO_SIZE + 1 ] }

BusBytes == { 17, 34 }

\* A call with a valid count waits in its loop for the frame before it to
\* finish, so it gets to the copy only when nothing is being transmitted.
\* Frames are sent once RS485_Initialize has set the UART up.
Call_RS485_Send_Frame ==
    \E f \in FrameInputs :
        \E s \in { RS485_Send_Frame(Begin(m), f.buffer, f.nbytes) } :
            /\ Running
            /\ m.U1RXIE
            /\ f.nbytes \in 1..BACNET_TX_FIFO_SIZE => ~m.transmitting
            /\ env.sends < MaxSends
            /\ m' = s
            /\ Did("RS485_Send_Frame", [ nbytes |-> f.nbytes ])
            /\ env' = [env EXCEPT !.sends = IF s.transmitting /\ ~m.transmitting
                                            THEN @ + 1 ELSE @]

Call_RS485_Transmit_Ready ==
    /\ Running
    /\ m' = [Begin(m) EXCEPT !.ret = IF RS485_Transmit_Ready(m) THEN 1 ELSE 0]
    /\ Did("RS485_Transmit_Ready", NoArg)
    /\ UNCHANGED env

Call_RS485_DataAvailable ==
    /\ Running
    /\ m' = [Begin(m) EXCEPT !.ret = IF RS485_DataAvailable(m) THEN 1 ELSE 0]
    /\ Did("RS485_DataAvailable", NoArg)
    /\ UNCHANGED env

Call_RS485_Receive ==
    /\ Running
    /\ m' = RS485_Receive(Begin(m))
    /\ Did("RS485_Receive", NoArg)
    /\ env' = [env EXCEPT !.queued = IF @ = << >> THEN @ ELSE Tail(@)]

\* A byte arrives from the bus and raises the receive interrupt
Arrival(bytes, most) ==
    \E data \in bytes :
        /\ Running
        /\ m.U1RXIE
        /\ ~m.U1STA.OERR
        /\ env.arrivals < most
        /\ m' = UART1Handler_Error(UART1Handler_RX(Begin(m), data))
        /\ Did("UART1Handler_RX", [ a |-> data ])
        /\ env' = [env EXCEPT
                     !.arrivals = @ + 1,
                     !.queued = IF Len(m.rx_fifo) < BACNET_RX_FIFO_SIZE
                                THEN Append(@, [ byte |-> data,
                                                 at |-> m.millisecond_counter ])
                                ELSE @]

Interrupt_UART1_Arrival == Arrival(BusBytes, MaxArrivals)

\* main() sets the transport up once
Startup_RS485_Initialize == call.op = "start" /\ Call_RS485_Initialize

\* Another station keeps sending while the main loop does not poll
FloodBytes == { 85 }

Interrupt_UART1_Flood == Arrival(FloodBytes, BACNET_RX_FIFO_SIZE + MaxOverflow)

\* env.unseen: the UART has raised an error since the main loop last asked
Call_RS485_ReceiveError ==
    /\ Running
    /\ m' = RS485_ReceiveError(Begin(m))
    /\ Did("RS485_ReceiveError", NoArg)
    /\ env' = [env EXCEPT !.unseen = FALSE]

\* The UART latches an overrun, a framing error or a parity error and raises
\* its error flag; no interrupt is enabled for it
ErrorKinds == { "OERR", "FERR", "PERR" }

Latched(s, kind) == [s EXCEPT !.U1STA[kind] = TRUE, !.U1EIF = TRUE]

UartRaisesError ==
    \E kind \in ErrorKinds :
        /\ Running
        /\ m.U1RXIE
        /\ env.errors < MaxErrors
        /\ m' = Latched(m, kind)
        /\ Did("uart_error", [ kind |-> kind ])
        /\ env' = [env EXCEPT !.errors = @ + 1, !.unseen = TRUE]

\* The main loop takes up polling once the FIFO has run full
Late_RS485_Receive == env.arrivals >= BACNET_RX_FIFO_SIZE /\ Call_RS485_Receive

Late_RS485_ReceiveError == env.arrivals >= BACNET_RX_FIFO_SIZE /\ Call_RS485_ReceiveError

\* A data frame for this station, sent once the frame before it has been
\* worked off
DataFrames ==
    FramesFrom3({ << FRAME_TYPE_BACNET_DATA_NOT_EXPECTING_REPLY, 1, << 7 >> >> })

PeerSendsData ==
    /\ m.rx_fifo = << >>
    /\ m.MSTP_Port.receive_state = "IDLE"
    /\ Peer(DataFrames)

\* The UART latches an error while the frame on the bus is being received:
\* the state machine is past the preamble and bytes are still to come
UartErrorInFrame ==
    \E kind \in ErrorKinds :
        /\ Up
        /\ env.wire # << >>
        /\ m.MSTP_Port.receive_state \in { "HEADER", "DATA" }
        /\ env.errors < MaxErrors
        /\ m' = Latched(m, kind)
        /\ Did("uart_error", [ kind |-> kind ])
        /\ env' = [env EXCEPT !.errors = @ + 1, !.unseen = TRUE,
                              !.error_frame = env.peer_frames]

(***************************************************************************)
(* The frame codec on its own: a frame is built and read back              *)
(***************************************************************************)
CodecFrameTypes ==
    { FRAME_TYPE_TOKEN, FRAME_TYPE_POLL_FOR_MASTER, FRAME_TYPE_REPLY_TO_POLL_FOR_MASTER,
      FRAME_TYPE_TEST_REQUEST, FRAME_TYPE_TEST_RESPONSE,
      FRAME_TYPE_BACNET_DATA_EXPECTING_REPLY, FRAME_TYPE_BACNET_DATA_NOT_EXPECTING_REPLY,
      FRAME_TYPE_REPLY_POSTPONED, 200 }
CodecAddresses == { 0, 1, 85, MSTP_BROADCAST_ADDRESS }
CodecPayloads == { << >>, << 7 >>, << 0, 255 >>, << 85, 255, 85 >> }

CodecInputs ==
    [ frame_type : CodecFrameTypes, destination : CodecAddresses,
      source : CodecAddresses, data : CodecPayloads ]

\* The port is set up; the frame to build is the argument of the run
InitCodec ==
    /\ m = dlmstp_init(Memory0)
    /\ \E a \in CodecInputs : call = [ op |-> "start", arg |-> a ]
    /\ env = [Env0 EXCEPT !.up = TRUE]

Codec_MSTP_Create_Frame ==
    /\ call.op = "start"
    /\ env' = [env EXCEPT !.wire =
                  MSTP_Create_Frame(m.MSTP_Port.OutputBufferSize, call.arg.frame_type,
                                    call.arg.destination, call.arg.source,
                                    call.arg.data, Len(call.arg.data))]
    /\ call' = [ op |-> "MSTP_Create_Frame", arg |-> call.arg ]
    /\ UNCHANGED m

\* One byte of the frame comes in through the receive interrupt and is read
\* by the receive machine
Codec_MSTP_Receive_Frame_FSM ==
    /\ call.op \in { "MSTP_Create_Frame", "MSTP_Receive_Frame_FSM" }
    /\ env.wire # << >>
    /\ m' = MSTP_Receive_Frame_FSM(UART1Handler_RX(Begin(m), Head(env.wire)))
    /\ call' = [ op |-> "MSTP_Receive_Frame_FSM", arg |-> call.arg ]
    /\ env' = [env EXCEPT !.wire = Tail(@)]

(***************************************************************************)
(* The Device object                                                       *)
(***************************************************************************)
DeviceInstances ==
    { U32Of(0), U32Of(127), U32Of(128), U32Of(12345), U32Of(BACNET_MAX_INSTANCE),
      U32Of(BACNET_MAX_INSTANCE + 1), Word(32768, 0), Word(65535, 65535) }

Call_Device_Set_Object_Instance_Number ==
    \E instance \in DeviceInstances :
        /\ m' = Device_Set_Object_Instance_Number(Begin(m), instance)
        /\ Did("Device_Set_Object_Instance_Number", [ instance |-> instance ])
        /\ UNCHANGED env

Call_Device_Object_Instance_Number ==
    /\ m' = Device_Object_Instance_Number(Begin(m))
    /\ Did("Device_Object_Instance_Number", NoArg)
    /\ UNCHANGED env

(***************************************************************************)
(* The Binary Output objects: the last object, and the first instance      *)
(* number that names none                                                   *)
(***************************************************************************)
BOInstances == { MAX_BINARY_OUTPUTS - 1, MAX_BINARY_OUTPUTS }
BOValues == { BINARY_INACTIVE, BINARY_ACTIVE }
BOPriorities == { 0, 1, BACNET_PRIORITY_ARRAY_SIZE, BACNET_PRIORITY_ARRAY_SIZE + 1 }

\* Every call is made on the last object with each of its arguments, and
\* once with the instance number that names no object
BOArgs(values, priorities, flags) ==
    [ instance : { MAX_BINARY_OUTPUTS - 1 }, value : values, priority : priorities,
      oos_flag : flags ]
    \cup { [ instance |-> MAX_BINARY_OUTPUTS, value |-> BINARY_ACTIVE,
             priority |-> 1, oos_flag |-> TRUE ] }

Call_Binary_Output_Init ==
    /\ m' = Binary_Output_Init(Begin(m))
    /\ Did("Binary_Output_Init", NoArg)
    /\ UNCHANGED env

Call_Binary_Output_Present_Value_Set ==
    \E a \in BOArgs(BOValues, BOPriorities, {TRUE}) :
        /\ m' = Binary_Output_Present_Value_Set(Begin(m), a.instance, a.value,
                                                a.priority)
        /\ Did("Binary_Output_Present_Value_Set",
               [ instance |-> a.instance, value |-> a.value, priority |-> a.priority ])
        /\ UNCHANGED env

Call_Binary_Output_Present_Value_Relinquish ==
    \E a \in BOArgs({BINARY_ACTIVE}, BOPriorities, {TRUE}) :
        /\ m' = Binary_Output_Present_Value_Relinquish(Begin(m), a.instance, a.priority)
        /\ Did("Binary_Output_Present_Value_Relinquish",
               [ instance |-> a.instance, priority |-> a.priority ])
        /\ UNCHANGED env

Call_Binary_Output_Present_Value ==
    \E instance \in BOInstances :
        /\ m' = Binary_Output_Present_Value(Begin(m), instance)
        /\ Did("Binary_Output_Present_Value", [ instance |-> instance ])
        /\ UNCHANGED env

Call_Binary_Output_Out_Of_Service_Set ==
    \E a \in BOArgs({BINARY_ACTIVE}, {1}, BOOLEAN) :
        /\ m' = Binary_Output_Out_Of_Service_Set(Begin(m), a.instance, a.oos_flag)
        /\ Did("Binary_Output_Out_Of_Service_Set",
               [ instance |-> a.instance, oos_flag |-> a.oos_flag ])
        /\ UNCHANGED env

Call_Binary_Output_Relinquish_Default_Set ==
    \E a \in BOArgs(BOValues, {1}, {TRUE}) :
        /\ m' = Binary_Output_Relinquish_Default_Set(Begin(m), a.instance, a.value)
        /\ Did("Binary_Output_Relinquish_Default_Set",
               [ instance |-> a.instance, value |-> a.value ])
        /\ UNCHANGED env

Call_Binary_Output_Change_Of_Value ==
    \E instance \in BOInstances :
        /\ m' = Binary_Output_Change_Of_Value(Begin(m), instance)
        /\ Did("Binary_Output_Change_Of_Value", [ instance |-> instance ])
        /\ UNCHANGED env

Call_Binary_Output_Change_Of_Value_Clear ==
    \E instance \in BOInstances :
        /\ m' = Binary_Output_Change_Of_Value_Clear(Begin(m), instance)
        /\ Did("Binary_Output_Change_Of_Value_Clear", [ instance |-> instance ])
        /\ UNCHANGED env

(***************************************************************************)
(* The silence timer as the state machines read it; env.since counts the   *)
(* ticks since the last received byte or reset of the silence timer        *)
(***************************************************************************)
Call_MSTP_SilenceTimer ==
    /\ m' = [Begin(m) EXCEPT !.ret32 = MSTP_SilenceTimer(Begin(m))]
    /\ Did("MSTP_SilenceTimer", NoArg)
    /\ UNCHANGED env

Call_MSTP_SilenceTimerReset ==
    /\ m' = MSTP_SilenceTimerReset(Begin(m))
    /\ Did("MSTP_SilenceTimerReset", NoArg)
    /\ env' = [env EXCEPT !.since = 0]

Interrupt_UART1_Byte ==
    \E data \in BusBytes :
        /\ m.U1RXIE
        /\ env.arrivals < MaxArrivals
        /\ m' = UART1Handler_Error(UART1Handler_RX(Begin(m), data))
        /\ Did("UART1Handler_RX", [ a |-> data ])
        /\ env' = [env EXCEPT !.arrivals = @ + 1, !.since = 0]

(***************************************************************************)
(* The main loop empties the FIFO; env.queued holds the bytes the          *)
(* interrupt has stored and the state machine has not been shown yet       *)
(***************************************************************************)
Drain_dlmstp_task ==
    /\ Up
    /\ m' = dlmstp_task(Begin(m))
    /\ Did("dlmstp_task", NoArg)
    /\ env' = [env EXCEPT !.queued = IF @ = << >> THEN @ ELSE Tail(@)]

(***************************************************************************)
(* Line noise: a frame reaches the receiver with one bit changed           *)
(***************************************************************************)
\* Data frames this station would hand to its upper layer if they came intact
NoiseFrames ==
    FramesFrom3({ << FRAME_TYPE_BACNET_DATA_NOT_EXPECTING_REPLY, 1, << 7 >> >>,
                  << FRAME_TYPE_BACNET_DATA_EXPECTING_REPLY, MSTP_BROADCAST_ADDRESS,
                     << 0, 255 >> >>,
                  << FRAME_TYPE_BACNET_DATA_NOT_EXPECTING_REPLY, MSTP_BROADCAST_ADDRESS,
                     << 85, 255, 85 >> >> })

Flip(frame, i, k) == [frame EXCEPT ![i] = BitXor(@, Pow2(k))]

\* Another station's frame, the one frame of the run, with bit k of byte i
\* changed on the way; the bytes after the preamble are the header with its
\* CRC and the data with its CRC
NoisyPeer ==
    \E frame \in NoiseFrames :
        \E i \in 3..Len(frame), k \in 0..7 :
            /\ Up
            /\ env.wire = << >>
            /\ env.peer_frames = 0
            /\ env' = [env EXCEPT !.wire = Flip(frame, i, k), !.peer_frames = @ + 1]
            /\ Did("peer", [ byte |-> i, bit |-> k ])
            /\ UNCHANGED m

\* dlmstp_task, with a record of what its receive machine came to: env.rejected
\* is set when the machine flags an invalid frame and is back in preamble
\* search
Noise_dlmstp_task ==
    \E s \in { dlmstp_task(Begin(m)) } :
        \E r \in { MSTP_Receive_Frame_FSM(Begin(m)).MSTP_Port } :
            /\ Up
            /\ m' = s
            /\ Did("dlmstp_task", NoArg)
            /\ env' = [env EXCEPT
                         !.rejected = @ \/ (r.ReceivedInvalidFrame
                                              /\ r.receive_state = "IDLE")]

(***************************************************************************)
(* One hold of the token                                                   *)
(***************************************************************************)
HoldLimits == { 1, 2, 5 }

\* max_info_frames is configured before a token is on its way
Idle_dlmstp_set_max_info_frames ==
    /\ Up
    /\ env.peer_frames = 0
    /\ Set_max_info_frames(HoldLimits, TRUE)

\* The callbacks called directly, as test_mstp_port_struct calls them
PortRef == [ null |-> FALSE ]
PortPointers == { NULL, PortRef }
TestFrame == << 85, 85 >>

Callback(op, mstp_port, outcomes) ==
    \E o \in outcomes :
        /\ Running
        /\ env.sends < MaxHoldSends
        /\ m' = o.memory
        /\ Did(op, [ null |-> IsNull(mstp_port) ])
        /\ env' = [env EXCEPT
                     !.sends = @ + 1,
                     !.trapped = o.trapped,
                     !.queued = IF Len(o.memory.rx_fifo) < Len(m.rx_fifo)
                                THEN Tail(@) ELSE @]

Call_MSTP_Get_Send ==
    \E p \in PortPointers :
        Callback("MSTP_Get_Send", p, MSTP_Get_Send_Outcomes(Begin(m), p, 0))

Call_MSTP_Get_Receive ==
    \E p \in PortPointers :
        Callback("MSTP_Get_Receive", p, MSTP_Get_Receive_Outcomes(Begin(m), p))

Call_MSTP_Put_Receive ==
    \E p \in PortPointers :
        Callback("MSTP_Put_Receive", p, MSTP_Put_Receive_Outcomes(Begin(m), p))

Call_MSTP_Send_Frame ==
    \E p \in PortPointers :
        Callback("MSTP_Send_Frame", p,
                 MSTP_Send_Frame_Outcomes(Begin(m), p, TestFrame, Len(TestFrame)))

\* RS485_Send_Frame with the transmit interrupt free to run between the
\* statements of its body.  The call leaves its wait loop once nothing is
\* being transmitted.
AcceptedFrames == { f \in FrameInputs : f.nbytes \in 1..BACNET_TX_FIFO_SIZE }

Enter_RS485_Send_Frame ==
    \E f \in AcceptedFrames :
        /\ m.U1RXIE
        /\ m.send_frame.pc = "idle"
        /\ ~m.transmitting
        /\ env.sends < MaxSends
        /\ m' = RS485_Send_Frame_Enter(Begin(m), f.buffer, f.nbytes)
        /\ Did("RS485_Send_Frame", [ nbytes |-> f.nbytes ])
        /\ env' = [env EXCEPT !.sends = @ + 1]

Body_RS485_Send_Frame ==
    /\ m.send_frame.pc # "idle"
    /\ m' = RS485_Send_Frame_Step(m)
    /\ Did("RS485_Send_Frame", [ nbytes |-> m.send_frame.nbytes ])
    /\ UNCHANGED env

\* The handler is followed as long as it reads what the call copied
Racing_UART1_TX ==
    /\ m.tx_count > 0 => m.tx_pos < Len(m.tx_buffer)
    /\ Interrupt_UART1_TX

\* The upper layer stages a PDU whenever it finds the slot free
Hold_dlmstp_send_pdu ==
    \E s \in { dlmstp_send_pdu(Begin(m), Unicast, NpduData(FALSE), PduOf(1), 1) } :
        /\ Up
        /\ ~m.Transmit_Packet.ready
        /\ env.sends < MaxHoldSends
        /\ m' = s
        /\ Did("dlmstp_send_pdu",
               [ null_dest |-> FALSE, null_pdu |-> FALSE, pdu_len |-> 1 ])
        /\ env' = [env EXCEPT !.sends = @ + 1]

DataFrameTypes ==
    { FRAME_TYPE_BACNET_DATA_EXPECTING_REPLY, FRAME_TYPE_BACNET_DATA_NOT_EXPECTING_REPLY }

\* The data frames among the frames the transport accepted in the last call
DataFramesSent(s) ==
    Cardinality({ i \in DOMAIN s.frames_sent : s.frames_sent[i][3] \in DataFrameTypes })

\* The master machine took a Token addressed to this station in the last call
TokenTaken(s) ==
    /\ s.put_receive # << >>
    /\ s.MSTP_Port.FrameType = FRAME_TYPE_TOKEN
    /\ s.MSTP_Port.DestinationAddress = s.MSTP_Port.This_Station

HoldStates == { "USE_TOKEN", "DONE_WITH_TOKEN", "WAIT_FOR_REPLY" }

\* dlmstp_task, with a record of the hold: env.held counts the data frames the
\* transport was handed since the Token was taken, env.limit is the
\* max_info_frames in force when it was taken, and the hold ends when the
\* master machine leaves the states in which it uses the token
Hold_dlmstp_task ==
    \E s \in { dlmstp_task(Begin(m)) } :
        /\ Up
        /\ m' = s
        /\ Did("dlmstp_task", NoArg)
        /\ env' = [env EXCEPT
                     !.holding = (TokenTaken(s) \/ env.holding)
                                   /\ s.MSTP_Port.master_state \in HoldStates,
                     !.held = IF TokenTaken(s) THEN DataFramesSent(s)
                              ELSE IF env.holding THEN @ + DataFramesSent(s)
                              ELSE @,
                     !.limit = IF TokenTaken(s) THEN m.Max_Info_Frames ELSE @]

(***************************************************************************)
(* The software timers of main.c                                           *)
(***************************************************************************)
\* The application looks at its timer at any time of the counter's run: just
\* after reset, halfway through, and a few ticks before the counter wraps
TimerStarts == { U32Of(0), Word(32767, 65534), Word(65535, 65533) }

InitTimer ==
    /\ \E c \in TimerStarts : m = [Memory0 EXCEPT !.millisecond_counter = c]
    /\ call = [ op |-> "start", arg |-> NoArg ]
    /\ env = Env0

TimerRef == [ null |-> FALSE ]
TimerPointers == { NULL, TimerRef }
TimerIntervals == { U32Of(0), U32Of(3) }

\* One 1 ms tick; env.since counts the ticks since the timer was started
Interrupt_Timer1_Tick ==
    /\ env.ticks < MaxTicks
    /\ m' = Timer1Handler(Begin(m))
    /\ Did("Timer1Handler", [ a |-> 1 ])
    /\ env' = [env EXCEPT !.ticks = @ + 1, !.since = @ + 1]

Call_mstimer_set ==
    \E t \in TimerPointers, interval \in TimerIntervals :
        /\ m' = mstimer_set(Begin(m), t, interval)
        /\ Did("mstimer_set", [ null |-> IsNull(t) ])
        /\ env' = IF IsNull(t) THEN env
                  ELSE [env EXCEPT !.armed = TRUE, !.since = 0]

Call_mstimer_reset ==
    \E t \in TimerPointers :
        /\ m' = mstimer_reset(Begin(m), t)
        /\ Did("mstimer_reset", [ null |-> IsNull(t) ])
        /\ env' = IF IsNull(t) THEN env
                  ELSE [env EXCEPT !.armed = TRUE, !.since = 0]

Call_mstimer_restart ==
    \E t \in TimerPointers :
        /\ m' = mstimer_restart(Begin(m), t)
        /\ Did("mstimer_restart", [ null |-> IsNull(t) ])
        /\ env' = IF IsNull(t) THEN env
                  ELSE [env EXCEPT !.armed = TRUE, !.since = 0]

\* After mstimer_expire the start no longer is the time of a set or reset
Call_mstimer_expire ==
    \E t \in TimerPointers :
        /\ m' = mstimer_expire(Begin(m), t)
        /\ Did("mstimer_expire", [ null |-> IsNull(t) ])
        /\ env' = IF IsNull(t) THEN env ELSE [env EXCEPT !.armed = FALSE]

Call_mstimer_elapsed ==
    \E t \in TimerPointers :
        /\ m' = mstimer_elapsed(Begin(m), t)
        /\ Did("mstimer_elapsed", [ null |-> IsNull(t) ])
        /\ UNCHANGED env

Call_mstimer_expired ==
    \E t \in TimerPointers :
        /\ m' = mstimer_expired(Begin(m), t)
        /\ Did("mstimer_expired", [ null |-> IsNull(t) ])
        /\ UNCHANGED env

Call_mstimer_remaining ==
    \E t \in TimerPointers :
        /\ m' = mstimer_remaining(Begin(m), t)
        /\ Did("mstimer_remaining", [ null |-> IsNull(t) ])
        /\ UNCHANGED env

\* The transmit path: the upper layer stages PDUs, a peer hands over the token
Next ==
    \/ Startup_dlmstp_init
    \/ Call_dlmstp_send_pdu
    \/ Call_dlmstp_task
    \/ Call_dlmstp_set_max_info_frames
    \/ Interrupt_UART1_RX
    \/ Interrupt_UART1_TX
    \/ PeerSendsToken

Spec == Init /\ [][Next]_vars

\* The receive path: every kind of frame arrives
NextReceive ==
    \/ Startup_dlmstp_init
    \/ Call_dlmstp_task
    \/ Interrupt_UART1_RX
    \/ Interrupt_UART1_TX
    \/ PeerSends

SpecReceive == Init /\ [][NextReceive]_vars

\* The facade's configuration: setters and getters in any order
NextConfig ==
    \/ Call_dlmstp_init
    \/ Call_dlmstp_task
    \/ Config_dlmstp_set_mac_address
    \/ Config_dlmstp_set_max_master
    \/ Config_dlmstp_set_max_info_frames
    \/ Call_dlmstp_get_my_address
    \/ Call_dlmstp_get_broadcast_address
    \/ Call_dlmstp_mac_address
    \/ Call_dlmstp_max_master
    \/ Call_dlmstp_max_info_frames

SpecConfig == Init /\ [][NextConfig]_vars

\* The station address alone, over every value of the uint8_t argument
NextMac ==
    \/ Call_dlmstp_init
    \/ Call_dlmstp_task
    \/ Every_dlmstp_set_mac_address
    \/ Call_dlmstp_get_my_address
    \/ Call_dlmstp_mac_address

SpecMac == Init /\ [][NextMac]_vars

\* The baud rate: the facade's setter and the transport's own
NextBaud ==
    \/ Call_RS485_Initialize
    \/ Call_RS485_Set_Baud_Rate
    \/ Call_dlmstp_set_baud_rate
    \/ Call_dlmstp_baud_rate

SpecBaud == Init /\ [][NextBaud]_vars

\* The transport driven alone: frames out, bytes in, the tick in between
NextTransport ==
    \/ Call_RS485_Initialize
    \/ Call_RS485_Send_Frame
    \/ Call_RS485_Transmit_Ready
    \/ Call_RS485_DataAvailable
    \/ Call_RS485_Receive
    \/ Interrupt_UART1_Arrival
    \/ Interrupt_UART1_TX
    \/ Interrupt_Timer1

SpecTransport == Init /\ [][NextTransport]_vars

\* The transmit side of the transport with nothing arriving
NextSend ==
    \/ Call_RS485_Initialize
    \/ Call_RS485_Send_Frame
    \/ Call_RS485_Transmit_Ready
    \/ Call_RS485_DataAvailable
    \/ Interrupt_UART1_TX

SpecSend == Init /\ [][NextSend]_vars

\* The receive FIFO filled to its capacity and beyond
NextOverflow ==
    \/ Startup_RS485_Initialize
    \/ Interrupt_UART1_Flood
    \/ Late_RS485_Receive
    \/ Late_RS485_ReceiveError

SpecOverflow == Init /\ [][NextOverflow]_vars

\* Receive errors: the UART raises them, the interrupt and the main loop look
NextErrors ==
    \/ Startup_RS485_Initialize
    \/ UartRaisesError
    \/ Interrupt_UART1_Arrival
    \/ Call_RS485_Receive
    \/ Call_RS485_ReceiveError

SpecErrors == Init /\ [][NextErrors]_vars

\* A frame for this station whose reception the UART marks with an error
NextReceiveError ==
    \/ Startup_dlmstp_init
    \/ Call_dlmstp_task
    \/ Interrupt_UART1_RX
    \/ PeerSendsData
    \/ UartErrorInFrame

SpecReceiveError == Init /\ [][NextReceiveError]_vars

\* The datalink brought up again at any time, configured and with PDUs staged
NextInit ==
    \/ Call_dlmstp_init
    \/ Call_dlmstp_send_pdu
    \/ Call_dlmstp_task
    \/ Config_dlmstp_set_mac_address
    \/ Config_dlmstp_set_max_master
    \/ Config_dlmstp_set_max_info_frames

SpecInit == Init /\ [][NextInit]_vars

\* The Device object's instance number and the station address it sets
NextDevice ==
    \/ Call_dlmstp_init
    \/ Call_Device_Set_Object_Instance_Number
    \/ Call_Device_Object_Instance_Number
    \/ Config_dlmstp_set_mac_address
    \/ Call_dlmstp_mac_address

SpecDevice == Init /\ [][NextDevice]_vars

\* The station address is changed while frames come and go
NextReset ==
    \/ Startup_dlmstp_init
    \/ Call_dlmstp_task
    \/ Live_dlmstp_set_mac_address
    \/ Interrupt_UART1_RX
    \/ Interrupt_UART1_TX
    \/ PeerSendsToken

SpecReset == Init /\ [][NextReset]_vars

\* The silence timer is read and reset while bytes arrive and time passes
NextSilence ==
    \/ Startup_dlmstp_init
    \/ Interrupt_Timer1_Tick
    \/ Interrupt_UART1_Byte
    \/ Call_MSTP_SilenceTimer
    \/ Call_MSTP_SilenceTimerReset

SpecSilence == Init /\ [][NextSilence]_vars

\* The main loop's call of dlmstp_task, with whatever the bus and the upper
\* layer have done since the last one
NextTask ==
    \/ Startup_dlmstp_init
    \/ Call_dlmstp_task
    \/ Hold_dlmstp_send_pdu
    \/ Live_dlmstp_set_max_master
    \/ Interrupt_UART1_RX
    \/ Interrupt_UART1_TX
    \/ PeerSendsToken

SpecTask == Init /\ [][NextTask]_vars

\* Bytes arrive in bursts and the main loop comes round again and again
\* The upper layer stages a PDU while the program runs
Staged_dlmstp_send_pdu == Running /\ Hold_dlmstp_send_pdu

Running_UART1_Arrival == Running /\ Interrupt_UART1_Arrival

NextCallbacks ==
    \/ Startup_dlmstp_init
    \/ Staged_dlmstp_send_pdu
    \/ Running_UART1_Arrival
    \/ Call_MSTP_Get_Send
    \/ Call_MSTP_Get_Receive
    \/ Call_MSTP_Put_Receive
    \/ Call_MSTP_Send_Frame

SpecCallbacks == Init /\ [][NextCallbacks]_vars

NextRace ==
    \/ Startup_RS485_Initialize
    \/ Enter_RS485_Send_Frame
    \/ Body_RS485_Send_Frame
    \/ Racing_UART1_TX
    \/ Call_RS485_Transmit_Ready

SpecRace == Init /\ [][NextRace]_vars

\* A station given an address above max_master, with the main loop calling
\* dlmstp_task again and again
NextOffer ==
    \/ Startup_dlmstp_init
    \/ Slave_dlmstp_set_mac_address
    \/ Hold_dlmstp_send_pdu
    \/ Call_dlmstp_task
    \/ Interrupt_Timer1_Tick

SpecOffer == Init /\ [][NextOffer]_vars /\ WF_vars(Call_dlmstp_task)

\* The device instance and the station address set while the station runs
NextStation ==
    \/ Startup_dlmstp_init
    \/ Call_dlmstp_task
    \/ Call_Device_Set_Object_Instance_Number
    \/ Live_dlmstp_set_mac_address
    \/ Interrupt_UART1_RX
    \/ PeerSendsToken

SpecStation == Init /\ [][NextStation]_vars

NextDrain ==
    \/ Startup_dlmstp_init
    \/ Interrupt_UART1_Arrival
    \/ Call_RS485_DataAvailable
    \/ Drain_dlmstp_task

SpecDrain == Init /\ [][NextDrain]_vars /\ WF_vars(Drain_dlmstp_task)

\* The application works on a Binary Output while the 1 ms tick runs
NextBinaryOutput ==
    \/ Call_Binary_Output_Init
    \/ Call_Binary_Output_Present_Value_Set
    \/ Call_Binary_Output_Present_Value_Relinquish
    \/ Call_Binary_Output_Present_Value
    \/ Call_Binary_Output_Out_Of_Service_Set
    \/ Call_Binary_Output_Relinquish_Default_Set
    \/ Call_Binary_Output_Change_Of_Value
    \/ Call_Binary_Output_Change_Of_Value_Clear
    \/ Interrupt_Timer1

SpecBinaryOutput == Init /\ [][NextBinaryOutput]_vars

\* A frame of any type, built and read back byte by byte
NextCodec ==
    \/ Codec_MSTP_Create_Frame
    \/ Codec_MSTP_Receive_Frame_FSM

SpecCodec == InitCodec /\ [][NextCodec]_vars

\* A frame with one bit changed arrives
NextNoise ==
    \/ Startup_dlmstp_init
    \/ NoisyPeer
    \/ Interrupt_UART1_RX
    \/ Noise_dlmstp_task

SpecNoise == Init /\ [][NextNoise]_vars

\* A token hold: the upper layer keeps the slot filled, a peer hands over the
\* token
NextToken ==
    \/ Startup_dlmstp_init
    \/ Idle_dlmstp_set_max_info_frames
    \/ Hold_dlmstp_send_pdu
    \/ Hold_dlmstp_task
    \/ Interrupt_UART1_RX
    \/ Interrupt_UART1_TX
    \/ PeerSendsToken

SpecToken == Init /\ [][NextToken]_vars

\* A software timer and the tick it is measured with
NextTimer ==
    \/ Interrupt_Timer1_Tick
    \/ Call_mstimer_set
    \/ Call_mstimer_reset
    \/ Call_mstimer_restart
    \/ Call_mstimer_expire
    \/ Call_mstimer_elapsed
    \/ Call_mstimer_expired
    \/ Call_mstimer_remaining

SpecTimer == InitTimer /\ [][NextTimer]_vars

C3_ClearedMeansSent ==
    (call.op = "dlmstp_task" /\ \E i \in DOMAIN m.get_send : m.get_send[i] > 0)
        => Cardinality({ i \in DOMAIN m.frames_sent :
                           m.frames_sent[i][3] \in
                               { FRAME_TYPE_BACNET_DATA_EXPECTING_REPLY,
                                 FRAME_TYPE_BACNET_DATA_NOT_EXPECTING_REPLY } }) = 1

\* C4: for every length dlmstp_send_pdu accepts the slot becomes free once the
\* station holds the token: an MSTP_Get_Send call never leaves a staged PDU
\* in the slot because its frame cannot be built in the output buffer.
C4_GetSendFreesSlot ==
    (call.op = "dlmstp_task" /\ m.get_send # << >>) => ~m.Transmit_Packet.ready

C5_HandlerIffDataForUs ==
    LET port == m.MSTP_Port
    IN  call.op = "dlmstp_task" =>
        IF m.put_receive # << >>
           /\ port.FrameType \in { FRAME_TYPE_BACNET_DATA_EXPECTING_REPLY,
                                   FRAME_TYPE_BACNET_DATA_NOT_EXPECTING_REPLY }
           /\ port.DataLength > 0
           /\ port.DestinationAddress \in { port.This_Station, MSTP_BROADCAST_ADDRESS }
        THEN m.npdu_handler =
                 << [ src |-> Address(1, port.SourceAddress, 0),
                      pdu |-> SubSeq(port.InputBuffer, 1, port.DataLength),
                      pdu_len |-> port.DataLength ] >>
        ELSE m.npdu_handler = << >>

\* The broadcast data frame of station 3 reached the handler
C5_Witness ==
    /\ call.op = "dlmstp_task"
    /\ m.put_receive = << 1 >>
    /\ m.MSTP_Port.DestinationAddress = MSTP_BROADCAST_ADDRESS
    /\ m.npdu_handler = << [ src |-> Address(1, 3, 0), pdu |-> << 8 >>, pdu_len |-> 1 ] >>

(***************************************************************************)
(* Properties of the configuration facade                                  *)
(***************************************************************************)
\* C8: dlmstp_get_broadcast_address writes mac_len 1, mac[0] = 0xFF and
\* net = BACNET_BROADCAST_NETWORK whatever the station address is, and changes
\* nothing else.
C8_BroadcastAddress ==
    [][ call'.op = "dlmstp_get_broadcast_address"
            => /\ m'.out_address.mac_len = 1
               /\ m'.out_address.mac0 = MSTP_BROADCAST_ADDRESS
               /\ m'.out_address.net = BACNET_BROADCAST_NETWORK
               /\ [m' EXCEPT !.out_address = Address(0, 0, 0)] = Begin(m) ]_vars

C8_Witness ==
    /\ call.op = "dlmstp_get_broadcast_address"
    /\ m.out_address.mac0 = MSTP_BROADCAST_ADDRESS
    /\ m.This_Station = 200

\* What both getters of the station address report in memory s
Reports(s, a) ==
    /\ dlmstp_get_my_address(s, Address(0, 0, 0)).out_address.mac_len = 1
    /\ dlmstp_get_my_address(s, Address(0, 0, 0)).out_address.mac0 = a
    /\ dlmstp_mac_address(s).ret = a

C10_ConfigurationInRange ==
    [][ /\ m'.This_Station \in 0..254
        /\ m'.Max_Master \in 0..127
        /\ m'.Max_Info_Frames >= 1
        /\ (\/ call'.op = "dlmstp_set_mac_address" /\ call'.arg.a = 255
            \/ call'.op = "dlmstp_set_max_master" /\ call'.arg.a > 127
            \/ call'.op = "dlmstp_set_max_info_frames" /\ call'.arg.a = 0)
               => m' = Begin(m) ]_vars

\* dlmstp_set_max_master(128) came while the state machine was past INITIALIZE
C10_Witness ==
    /\ call.op = "dlmstp_set_max_master"
    /\ call.arg.a = 128
    /\ m.Max_Master = 127
    /\ m.MSTP_Port.Nmax_master = 127
    /\ m.MSTP_Port.master_state = "IDLE"

(***************************************************************************)
(* Properties of the baud rate                                             *)
(***************************************************************************)
\* C11: dlmstp_set_baud_rate(b) returns true and writes the divisor of b to
\* the UART exactly when b is 9600, 19200, 38400, 57600, 76800 or 115200; for
\* any other b it returns false and leaves the divisor, like all of memory,
\* as it was.
C11_BaudRateValidated ==
    [][ call'.op = "dlmstp_set_baud_rate" =>
          IF call'.arg.a \in { 9600, 19200, 38400, 57600, 76800, 115200 }
          THEN /\ m'.ret = 1
               /\ m'.U1BRG = (GetPeripheralClock \div (4 * call'.arg.a)) - 1
               /\ [m' EXCEPT !.ret = 0, !.U1BRG = m.U1BRG] = Begin(m)
          ELSE /\ m'.ret = 0
               /\ m' = Begin(m) ]_vars

\* 12345 was refused while the divisor of 38400 baud was in the register
C11_Witness ==
    /\ call.op = "dlmstp_set_baud_rate"
    /\ call.arg.a = 12345
    /\ m.ret = 0
    /\ m.U1BRG = 519

\* C12: RS485_Set_Baud_Rate called with a rate other than 9600, 19200, 38400,
\* 57600, 76800 and 115200, 0 included, leaves the baud-rate divisor as it was.
C12_TransportRejectsOtherRates ==
    [][ (call'.op = "RS485_Set_Baud_Rate"
           /\ call'.arg.a \notin { 9600, 19200, 38400, 57600, 76800, 115200 })
            => m'.U1BRG = m.U1BRG ]_vars

(***************************************************************************)
(* Properties of the RS-485 transport                                      *)
(***************************************************************************)
\* C13: RS485_Send_Frame called with a byte count of 0 or a count above
\* BACNET_TX_FIFO_SIZE does nothing: the transmit buffer, tx_count, tx_pos,
\* the count of transmitted bytes, the transmitting flag and the
\* driver-enable line, like all of memory, are as they were.
C13_SendFrameBadCountNoOp ==
    [][ (call'.op = "RS485_Send_Frame"
           /\ (call'.arg.nbytes = 0 \/ call'.arg.nbytes > BACNET_TX_FIFO_SIZE))
            => /\ m'.tx_buffer = m.tx_buffer
               /\ m'.tx_count = m.tx_count
               /\ m'.tx_pos = m.tx_pos
               /\ m'.tx_bytes = m.tx_bytes
               /\ m'.transmitting = m.transmitting
               /\ m'.driver_enable = m.driver_enable
               /\ m' = Begin(m) ]_vars

\* A count of 513 was passed while a frame of three bytes was on its way out
C13_Witness ==
    /\ call.op = "RS485_Send_Frame"
    /\ call.arg.nbytes = BACNET_TX_FIFO_SIZE + 1
    /\ m.transmitting /\ m.driver_enable
    /\ m.tx_buffer = << 1, 2, 3 >>
    /\ m.tx_count = 2

C15_InitializeResetsTransport ==
    [][ call'.op = "RS485_Initialize"
            => /\ ~RS485_DataAvailable(m')
               /\ RS485_Transmit_Ready(m')
               /\ ~m'.driver_enable ]_vars

\* C16: RS485_Receive returns the bytes in the order in which the interrupt
\* stored them, each with the millisecond count of its arrival, and returns
\* false and changes nothing when the FIFO is empty, also after
\* RS485_Initialize has been called again.
C16_ReceiveInOrderWithTimestamp ==
    [][ call'.op = "RS485_Receive" =>
          IF env.queued # << >>
          THEN /\ m'.ret = 1
               /\ m'.out_byte = Head(env.queued).byte
               /\ m'.out_timestamp = Head(env.queued).at
          ELSE /\ m'.ret = 0
               /\ m' = Begin(m) ]_vars

\* C17: the receive FIFO never holds more than BACNET_RX_FIFO_SIZE bytes, and
\* a byte that arrives while it is full leaves an error behind that the next
\* RS485_ReceiveError poll reports.
C17_OverflowSignalled ==
    [][ /\ Len(m'.rx_fifo) <= BACNET_RX_FIFO_SIZE
        /\ (call'.op = "UART1Handler_RX" /\ Len(m.rx_fifo) = BACNET_RX_FIFO_SIZE)
              => RS485_ReceiveError(m').ret = 1 ]_vars

\* C18: every overrun, framing and parity error the UART raises reaches the
\* main loop: RS485_ReceiveError called from the main loop returns true when
\* an error was raised since its last call, and false when none was.
C18_ErrorsReachMainLoop ==
    [][ call'.op = "RS485_ReceiveError" => (m'.ret = 1 <=> env.unseen) ]_vars

\* C19: when the UART latches an overrun, framing or parity error while a
\* frame is being received, that frame is discarded: no call of dlmstp_task
\* hands it to npdu_handler.
C19_ErrorFrameNeverDelivered ==
    (call.op = "dlmstp_task" /\ env.error_frame > 0
                             /\ env.error_frame = env.peer_frames)
        => m.npdu_handler = << >>

(***************************************************************************)
(* Properties of the software timers                                       *)
(***************************************************************************)
\* C20: mstimer_elapsed(t) returns the number of 1 ms ticks since the last
\* mstimer_set or mstimer_reset on t, the difference of millisecond_counter
\* and the start modulo 2^32, also when the counter has wrapped from 2^32 - 1
\* to 0 in between.
C20_ElapsedAcrossWrap ==
    (call.op = "mstimer_elapsed" /\ ~call.arg.null /\ env.armed)
        => m.ret32 = U32Of(env.since)

\* Five ticks were counted from a start three ticks before the counter wrapped
C20_Witness ==
    /\ call.op = "mstimer_elapsed"
    /\ ~call.arg.null
    /\ env.armed
    /\ m.timer.start = Word(65535, 65533)
    /\ m.millisecond_counter = Word(0, 2)
    /\ m.ret32 = U32Of(5)

\* C21: for the timer and every count of ticks, also across a wrap of
\* millisecond_counter: mstimer_expired is true exactly when mstimer_elapsed
\* is at least the interval; mstimer_remaining is 0 exactly when
\* mstimer_expired is true, and otherwise mstimer_remaining plus
\* mstimer_elapsed is the interval; right after mstimer_expire the timer is
\* expired.
C21_ExpiredRemainingElapsed ==
    LET expired == mstimer_expired(m, TimerRef).ret = 1
        elapsed == mstimer_elapsed(m, TimerRef).ret32
        remaining == mstimer_remaining(m, TimerRef).ret32
    IN  /\ expired <=> Ge32(elapsed, m.timer.interval)
        /\ remaining = U32Of(0) <=> expired
        /\ ~expired => Add32(remaining, elapsed) = m.timer.interval
        /\ (call.op = "mstimer_expire" /\ ~call.arg.null) => expired
        /\ (call.op = "mstimer_expired" /\ ~call.arg.null)
              => (m.ret = 1 <=> Ge32(elapsed, m.timer.interval))
        /\ (call.op = "mstimer_remaining" /\ ~call.arg.null)
              => m.ret32 = remaining

\* One of three ticks is left of a timer set just before the counter wrapped
C21_Witness ==
    /\ call.op = "mstimer_remaining"
    /\ ~call.arg.null
    /\ m.timer.start = Word(65535, 65535)
    /\ m.timer.interval = U32Of(3)
    /\ m.millisecond_counter = Word(0, 1)
    /\ m.ret32 = U32Of(1)

(***************************************************************************)
(* Properties of the token hold                                            *)
(***************************************************************************)
\* C22: in one hold of the token, a station that took a Token hands at most
\* max_info_frames data frames to the transport before it passes the token
\* or polls for a master, for max_info_frames 1, 2 and 5, also when the upper
\* layer stages a new PDU every time the transmit slot is free.
C22_TokenHoldBounded ==
    /\ env.held <= env.limit
    /\ env.holding => m.MSTP_Port.FrameCount <= env.limit

\* With max_info_frames 2 the second data frame of a hold went to the
\* transport while a third PDU was staged, and the hold then ended
C22_Witness ==
    /\ call.op = "dlmstp_task"
    /\ env.limit = 2
    /\ env.held = 2
    /\ ~env.holding
    /\ m.Transmit_Packet.ready

(***************************************************************************)
(* Properties of the frame codec                                           *)
(***************************************************************************)
\* C23: for every frame type, destination, source and payload that fits the
\* output buffer, the bytes MSTP_Create_Frame produces are the preamble, the
\* type, destination, source, the length high byte first, the header CRC,
\* then the payload and two CRC bytes when the length is not zero, and the
\* receive machine, having read them all, holds a valid frame with exactly
\* the original type, destination, source, length and payload.
C23_FrameRoundTrip ==
    LET a == call.arg
        port == m.MSTP_Port
        n == Len(a.data)
    IN  /\ call.op = "MSTP_Create_Frame" =>
              /\ Len(env.wire) = IF n = 0 THEN 8 ELSE 8 + n + 2
              /\ SubSeq(env.wire, 1, 7) =
                     << 85, 255, a.frame_type, a.destination, a.source,
                        n \div 256, n % 256 >>
              /\ n > 0 => SubSeq(env.wire, 9, 8 + n) = a.data
        /\ (call.op = "MSTP_Receive_Frame_FSM" /\ env.wire = << >>) =>
              /\ port.ReceivedValidFrame /\ ~port.ReceivedInvalidFrame
              /\ port.receive_state = "IDLE"
              /\ port.FrameType = a.frame_type
              /\ port.DestinationAddress = a.destination
              /\ port.SourceAddress = a.source
              /\ port.DataLength = n
              /\ SubSeq(port.InputBuffer, 1, n) = a.data

\* A Test-Request from station 85 to all with a payload that looks like a
\* preamble was read back
C23_Witness ==
    /\ call.op = "MSTP_Receive_Frame_FSM"
    /\ env.wire = << >>
    /\ call.arg = [ frame_type |-> FRAME_TYPE_TEST_REQUEST,
                    destination |-> MSTP_BROADCAST_ADDRESS, source |-> 85,
                    data |-> << 85, 255, 85 >> ]
    /\ m.MSTP_Port.ReceivedValidFrame
    /\ SubSeq(m.MSTP_Port.InputBuffer, 1, 3) = << 85, 255, 85 >>

\* C24: when one bit of the header or of the data of a frame (either with its
\* CRC) is changed on the way, the receive machine flags an invalid frame and
\* goes back to preamble search, and no call of dlmstp_task hands the frame's
\* payload to npdu_handler.
C24_BitFlipRejected ==
    /\ call.op = "dlmstp_task" => m.npdu_handler = << >>
    /\ (env.peer_frames > 0 /\ env.wire = << >> /\ m.rx_fifo = << >>
          /\ call.op = "dlmstp_task")
           => env.rejected

\* A frame whose bytes were all read was rejected and left nothing pending
C24_Witness ==
    /\ call.op = "dlmstp_task"
    /\ env.peer_frames > 0 /\ env.wire = << >> /\ m.rx_fifo = << >>
    /\ env.rejected
    /\ m.rx_bytes = 13
    /\ m.MSTP_Port.receive_state = "IDLE"
    /\ ~m.MSTP_Port.ReceivedInvalidFrame /\ ~m.MSTP_Port.ReceivedValidFrame
    /\ m.npdu_handler = << >> /\ m.Receive_PDU_Len = 0

(***************************************************************************)
(* Properties of bringing the datalink up                                  *)
(***************************************************************************)
\* The master machine in INITIALIZE writes Next_Station and Poll_Station
\* before it reads them: what they hold until then is not part of the
\* datalink's state
Settled(s) ==
    IF s.MSTP_Port.master_state = "INITIALIZE"
    THEN [s EXCEPT !.MSTP_Port.Next_Station = s.MSTP_Port.This_Station,
                   !.MSTP_Port.Poll_Station = s.MSTP_Port.This_Station]
    ELSE s

C26_InstanceNumberInRange ==
    [][ /\ call'.op = "Device_Set_Object_Instance_Number" =>
              IF Ge32(U32Of(4194303), call'.arg.instance)
              THEN /\ m'.ret = 1
                   /\ Device_Object_Instance_Number(m').ret32 = call'.arg.instance
              ELSE /\ m'.ret = 0
                   /\ m'.Device_Object_Instance = m.Device_Object_Instance
                   /\ dlmstp_mac_address(m').ret = dlmstp_mac_address(m).ret
                   /\ m'.MSTP_Port = m.MSTP_Port
        /\ call'.op = "Device_Object_Instance_Number" =>
              m'.ret32 = m.Device_Object_Instance ]_vars

\* 4194304 was refused after 4194303 had been accepted and the station
\* address had been set to 200 by hand
C26_Witness ==
    /\ call.op = "Device_Set_Object_Instance_Number"
    /\ call.arg.instance = U32Of(4194304)
    /\ m.ret = 0
    /\ m.Device_Object_Instance = U32Of(4194303)
    /\ m.This_Station = 200

(***************************************************************************)
(* Properties of the Binary Output objects                                 *)
(***************************************************************************)
BOSlots == 1..BACNET_PRIORITY_ARRAY_SIZE

\* The slots of an object that are active, numbered as the callers number them
ActiveSlots(bo) == { p \in BOSlots : bo.Priority_Active[p - 1] }

\* The value of the lowest-numbered slot among `slots`, or the relinquish
\* default when there is none
Winning(bo, slots) ==
    IF slots = {} THEN bo.Relinquish_Default
    ELSE bo.Priority_Array[(CHOOSE p \in slots : \A q \in slots : p <= q) - 1]

PriorityCall(c) ==
    /\ c.op \in {"Binary_Output_Present_Value_Set",
                 "Binary_Output_Present_Value_Relinquish"}
    /\ c.arg.instance < MAX_BINARY_OUTPUTS

\* C27: on an object that is not out of service, a Present_Value_Set or a
\* Present_Value_Relinquish with a priority in 1..16 succeeds and leaves as
\* present value the value of the lowest-numbered active slot, or the
\* relinquish default when no slot is active; when the relinquished slot was
\* the winning one and other slots are active, the present value becomes the
\* value of the lowest-numbered of those others.
C27_PriorityArrayWins ==
    [][ (/\ PriorityCall(call')
         /\ call'.arg.priority \in BOSlots
         /\ ~m'.BO_Data[call'.arg.instance].Out_Of_Service)
        => /\ m'.ret = 1
           /\ m'.BO_Data[call'.arg.instance].Present_Value =
                  Winning(m'.BO_Data[call'.arg.instance],
                          ActiveSlots(m'.BO_Data[call'.arg.instance]))
           /\ (/\ call'.op = "Binary_Output_Present_Value_Relinquish"
               /\ call'.arg.priority \in ActiveSlots(m.BO_Data[call'.arg.instance])
               /\ \A q \in ActiveSlots(m.BO_Data[call'.arg.instance]) :
                      call'.arg.priority <= q
               /\ ActiveSlots(m.BO_Data[call'.arg.instance]) # {call'.arg.priority})
              => m'.BO_Data[call'.arg.instance].Present_Value =
                     Winning(m.BO_Data[call'.arg.instance],
                             ActiveSlots(m.BO_Data[call'.arg.instance])
                                 \ {call'.arg.priority}) ]_vars

\* Priority 1 has just been relinquished on the last object, after the
\* counter has run: the object went from inactive, the value slot 1 still
\* holds, to the active value that slot 16 asks for
C27_Witness ==
    /\ call = [ op |-> "Binary_Output_Present_Value_Relinquish",
                arg |-> [ instance |-> MAX_BINARY_OUTPUTS - 1, priority |-> 1 ] ]
    /\ m.ret = 1
    /\ ~m.BO_Data[MAX_BINARY_OUTPUTS - 1].Out_Of_Service
    /\ ActiveSlots(m.BO_Data[MAX_BINARY_OUTPUTS - 1]) = { BACNET_PRIORITY_ARRAY_SIZE }
    /\ m.BO_Data[MAX_BINARY_OUTPUTS - 1].Priority_Array[0] = BINARY_INACTIVE
    /\ m.BO_Data[MAX_BINARY_OUTPUTS - 1].Priority_Array[BACNET_PRIORITY_ARRAY_SIZE - 1]
           = BINARY_ACTIVE
    /\ m.BO_Data[MAX_BINARY_OUTPUTS - 1].Relinquish_Default = BINARY_INACTIVE
    /\ m.BO_Data[MAX_BINARY_OUTPUTS - 1].Present_Value = BINARY_ACTIVE
    /\ m.BO_Data[MAX_BINARY_OUTPUTS - 1].Last_State = BINARY_INACTIVE
    /\ m.BO_Data[MAX_BINARY_OUTPUTS - 1].Changed
    /\ m.BO_Data[MAX_BINARY_OUTPUTS - 1].Time_Of_State_Count_Change_ms
           = m.millisecond_counter
    /\ m.millisecond_counter # U32Of(0)

\* C28: a Present_Value_Set with priority 0 or 17 on an object that is not
\* out of service returns false and leaves every object as it was; with
\* priority 0 on an object that is out of service it returns true and the
\* present value is the value written, while every slot of the priority
\* array and every active flag stay as they were.
C28_PriorityOutOfRange ==
    [][ (/\ call'.op = "Binary_Output_Present_Value_Set"
         /\ call'.arg.instance < MAX_BINARY_OUTPUTS
         /\ call'.arg.priority \in {0, BACNET_PRIORITY_ARRAY_SIZE + 1})
        => /\ ~m.BO_Data[call'.arg.instance].Out_Of_Service
              => /\ m'.ret = 0
                 /\ m'.BO_Data = m.BO_Data
           /\ (m.BO_Data[call'.arg.instance].Out_Of_Service /\ call'.arg.priority = 0)
              => /\ m'.ret = 1
                 /\ m'.BO_Data[call'.arg.instance].Present_Value = call'.arg.value
                 /\ m'.BO_Data[call'.arg.instance].Priority_Array
                        = m.BO_Data[call'.arg.instance].Priority_Array
                 /\ m'.BO_Data[call'.arg.instance].Priority_Active
                        = m.BO_Data[call'.arg.instance].Priority_Active ]_vars

\* Out of service, the last object was written the active value with priority
\* 0 while its only active slot asks for the inactive one
C28_Witness ==
    /\ call = [ op |-> "Binary_Output_Present_Value_Set",
                arg |-> [ instance |-> MAX_BINARY_OUTPUTS - 1,
                          value |-> BINARY_ACTIVE, priority |-> 0 ] ]
    /\ m.ret = 1
    /\ m.BO_Data[MAX_BINARY_OUTPUTS - 1].Out_Of_Service
    /\ m.BO_Data[MAX_BINARY_OUTPUTS - 1].Present_Value = BINARY_ACTIVE
    /\ m.BO_Data[MAX_BINARY_OUTPUTS - 1].Last_State = BINARY_INACTIVE
    /\ ActiveSlots(m.BO_Data[MAX_BINARY_OUTPUTS - 1]) = { 1 }
    /\ m.BO_Data[MAX_BINARY_OUTPUTS - 1].Priority_Array[0] = BINARY_INACTIVE
    /\ m.BO_Data[MAX_BINARY_OUTPUTS - 1].Changed

\* C29: a Present_Value_Set or Present_Value_Relinquish leaves the change
\* flag of its object set exactly when the flag was set before or the call
\* changed the present value; and a flag that is set stays set through every
\* step other than Binary_Output_Change_Of_Value_Clear of that object and
\* Binary_Output_Init.
C29_ChangeOfValueFlag ==
    [][ \A i \in 0..(MAX_BINARY_OUTPUTS - 1) :
          /\ (PriorityCall(call') /\ call'.arg.instance = i)
             => (m'.BO_Data[i].Changed <=>
                    (m.BO_Data[i].Changed
                     \/ m'.BO_Data[i].Present_Value # m.BO_Data[i].Present_Value))
          /\ (/\ m.BO_Data[i].Changed
              /\ call'.op # "Binary_Output_Init"
              /\ ~(/\ call'.op = "Binary_Output_Change_Of_Value_Clear"
                   /\ call'.arg.instance = i))
             => m'.BO_Data[i].Changed ]_vars

\* Slot 16 was written the value the object already shows: the call was
\* accepted and the flag, cleared before, is still clear
C29_Witness ==
    /\ call = [ op |-> "Binary_Output_Present_Value_Set",
                arg |-> [ instance |-> MAX_BINARY_OUTPUTS - 1,
                          value |-> BINARY_ACTIVE,
                          priority |-> BACNET_PRIORITY_ARRAY_SIZE ] ]
    /\ m.ret = 1
    /\ ActiveSlots(m.BO_Data[MAX_BINARY_OUTPUTS - 1]) = { BACNET_PRIORITY_ARRAY_SIZE }
    /\ m.BO_Data[MAX_BINARY_OUTPUTS - 1].Present_Value = BINARY_ACTIVE
    /\ m.BO_Data[MAX_BINARY_OUTPUTS - 1].Relinquish_Default = BINARY_INACTIVE
    /\ ~m.BO_Data[MAX_BINARY_OUTPUTS - 1].Changed

(***************************************************************************)
(* Properties of a change of address on a running station                  *)
(***************************************************************************)
\* C30: dlmstp_set_mac_address(a) with a in 0..254 and a other than the
\* station address of the port leaves the port with station address a and in
\* the state MSTP_Init leaves it in, both state machines at their start; with
\* a equal to the station address of the port it leaves the port as it was;
\* and no step other than dlmstp_set_mac_address and dlmstp_init changes the
\* station address of the port.
C30_AddressChangeResets ==
    [][ /\ (call'.op = "dlmstp_set_mac_address" /\ call'.arg.a <= 254)
           => IF m.MSTP_Port.This_Station # call'.arg.a
              THEN /\ m'.MSTP_Port.This_Station = call'.arg.a
                   /\ m'.MSTP_Port.master_state = "INITIALIZE"
                   /\ m'.MSTP_Port.receive_state = "IDLE"
                   /\ ~m'.MSTP_Port.ReceivedValidFrame
                   /\ ~m'.MSTP_Port.ReceivedInvalidFrame
                   /\ m'.MSTP_Port = MSTP_Init(m'.MSTP_Port)
              ELSE m'.MSTP_Port = m.MSTP_Port
        /\ call'.op \notin {"dlmstp_set_mac_address", "dlmstp_init"}
           => m'.MSTP_Port.This_Station = m.MSTP_Port.This_Station ]_vars

\* The station, which had frames of its own on the bus as station 1, was
\* given address 2 and its state machines are at their start
C30_Witness ==
    /\ call = [ op |-> "dlmstp_set_mac_address", arg |-> [ a |-> 2 ] ]
    /\ env.up
    /\ m.tx_bytes > 0
    /\ m.This_Station = 2
    /\ m.MSTP_Port.This_Station = 2
    /\ m.MSTP_Port.master_state = "INITIALIZE"
    /\ m.MSTP_Port.receive_state = "IDLE"

(***************************************************************************)
(* Properties of the silence timer                                         *)
(***************************************************************************)
\* C31: what MSTP_SilenceTimer returns is the number of milliseconds since the
\* most recent received byte or MSTP_SilenceTimerReset: 0 right after either,
\* one more with every tick since, and so less right after a reset than
\* before it.
C31_SilenceSinceLastByteOrReset ==
    call.op = "MSTP_SilenceTimer" => m.ret32 = U32Of(env.since)

(***************************************************************************)
(* Properties of dlmstp_task                                               *)
(***************************************************************************)
\* C32: a dlmstp_task call runs the receive machine once; it runs the master
\* machine not at all when the station address is above max_master, and
\* otherwise one time more than the master machine asked to be run again, so
\* that its last run asked for no other; and no frame it sends waits in the
\* transport for the frame before.
C32_TaskRunsToRest ==
    call.op = "dlmstp_task"
    => /\ m.fsm_runs.receive = 1
       /\ m.This_Station > m.Max_Master => m.fsm_runs.master = 0
       /\ m.This_Station <= m.Max_Master
              => m.fsm_runs.master >= 1 /\ ~m.fsm_runs.again
       /\ ~m.waited

\* One call took the master machine through several states and sent a frame
C32_Witness ==
    /\ call.op = "dlmstp_task"
    /\ m.fsm_runs.receive = 1
    /\ m.fsm_runs.master >= 3
    /\ m.frames_sent # << >>
    /\ ~m.waited

\* A call on a station outside the range of masters ran the receive machine only
C32_WitnessOutOfRange ==
    /\ call.op = "dlmstp_task"
    /\ m.This_Station > m.Max_Master
    /\ m.fsm_runs = [ receive |-> 1, master |-> 0, again |-> FALSE ]
    /\ m.rx_bytes > 0

(***************************************************************************)
(* Properties of the receive path between interrupt and state machine      *)
(***************************************************************************)
\* C33: a dlmstp_task call that finds bytes in the receive FIFO shows the
\* receive machine the byte that arrived first of those not yet shown, in
\* DataRegister with DataAvailable set, and takes it out of the FIFO; a call
\* that finds none shows none; so every stored byte is shown once, in the
\* order of arrival, and a FIFO with bytes in it becomes empty in the end when
\* dlmstp_task keeps being called.
C33_FifoDrainedInOrder ==
    /\ [][ call'.op = "dlmstp_task"
           => /\ env.queued # << >>
                 => /\ m'.presented = << Head(env.queued).byte >>
                    /\ Len(m'.rx_fifo) = Len(m.rx_fifo) - 1
              /\ env.queued = << >> => m'.presented = << >>
              /\ Len(m'.rx_fifo) = Len(env'.queued) ]_vars
    /\ (m.rx_fifo # << >>) ~> (m.rx_fifo = << >>)

\* Three bytes had arrived before the main loop came round; the second call
\* has shown the second of them and the third is still in the FIFO
C33_Witness ==
    /\ call.op = "dlmstp_task"
    /\ env.arrivals = 3
    /\ m.rx_bytes = 3
    /\ m.presented = << 34 >>
    /\ Len(m.rx_fifo) = 1
    /\ FIFO_Peek(m.rx_fifo) = 17
    /\ Len(env.queued) = 1

(***************************************************************************)
(* What the interrupt handlers and the main loop both touch                *)
(***************************************************************************)
\* The steps taken in interrupt context
InterruptOps == { "UART1Handler_RX", "UART1Handler_TX", "Timer1Handler" }

\* C34: a step of an interrupt handler changes nothing that main-loop code
\* reads or writes except the receive FIFO with its timestamps and the
\* millisecond counter: the transmit position and count, the transmitting
\* flag and the fields of the MS/TP port are as they were before the step
C34_OnlyFifoAndCounterShared ==
    [][ call'.op \in InterruptOps
        => /\ m'.tx_pos = m.tx_pos
           /\ m'.tx_count = m.tx_count
           /\ m'.transmitting = m.transmitting
           /\ m'.MSTP_Port = m.MSTP_Port ]_vars

(***************************************************************************)
(* The callbacks and the port pointer                                      *)
(***************************************************************************)
CallbacksReturning == { "MSTP_Get_Send", "MSTP_Get_Receive", "MSTP_Put_Receive" }

\* C35: MSTP_Get_Send, MSTP_Get_Receive and MSTP_Put_Receive called with a
\* NULL port return 0 and the program goes on; MSTP_Send_Frame called with a
\* NULL port returns and the program goes on; with the port itself,
\* MSTP_Get_Send returns 0 when no packet is staged and MSTP_Get_Receive
\* returns 0 when the receive FIFO is empty
C35_CallbacksTolerateNull ==
    [][ /\ call'.op \in CallbacksReturning /\ call'.arg.null
           => ~env'.trapped /\ m'.ret = 0
        /\ call'.op = "MSTP_Send_Frame" /\ call'.arg.null
           => ~env'.trapped
        /\ call'.op = "MSTP_Get_Send" /\ ~call'.arg.null /\ ~m.Transmit_Packet.ready
           => m'.ret = 0
        /\ call'.op = "MSTP_Get_Receive" /\ ~call'.arg.null /\ m.rx_fifo = << >>
           => m'.ret = 0 ]_vars

(***************************************************************************)
(* The transmit interrupt during RS485_Send_Frame                          *)
(***************************************************************************)
\* The frame the transport accepted last
FrameInFlight == SubSeq(m.tx_buffer, 1, m.send_frame.nbytes)

\* C36: whenever the transmit interrupt runs during the body of
\* RS485_Send_Frame, the bytes written to U1TXREG are the first bytes of the
\* accepted frame, each once and in index order, all n of them once the frame
\* is complete; and between the statements of the body tx_pos + tx_count = n
\* as long as the frame is in flight
C36_BytesOnceInOrder ==
    m.send_frame.nbytes > 0
    => /\ Len(m.U1TXREG) <= m.send_frame.nbytes
       /\ m.U1TXREG = SubSeq(FrameInFlight, 1, Len(m.U1TXREG))
       /\ (m.transmitting /\ m.send_frame.pc \in { "test", "idle" })
             => m.tx_pos + m.tx_count = m.send_frame.nbytes
       /\ ~m.transmitting => m.U1TXREG = FrameInFlight

(***************************************************************************)
(* Reading the baud rate back                                              *)
(***************************************************************************)
\* env.applied is the rate of the last dlmstp_set_baud_rate that succeeded,
\* 19200 before the first.
\* C37: dlmstp_baud_rate returns the rate most recently applied by a
\* successful dlmstp_set_baud_rate, 19200 if there was none; a rejected call
\* does not change what it returns
C37_BaudRateReadsBack ==
    call.op = "dlmstp_baud_rate" => m.ret = env.applied

(***************************************************************************)
(* A staged PDU and a station address above max_master                     *)
(***************************************************************************)
\* C38: a PDU that dlmstp_send_pdu accepted is in the end taken out of the
\* slot by the state machine also when the station address is above
\* max_master (an address 128..254): with dlmstp_task called again and again
\* the slot does not stay occupied
C38_AcceptedPduOffered ==
    (m.Transmit_Packet.ready /\ m.This_Station > m.Max_Master)
        ~> ~m.Transmit_Packet.ready

(***************************************************************************)
(* The facade's configuration and the port's copy of it                    *)
(***************************************************************************)
\* C39: once dlmstp_init has run, whatever setters, dlmstp_task,
\* dlmstp_send_pdu and further dlmstp_init calls follow, the port's
\* This_Station, Nmax_master and Nmax_info_frames are the facade's
\* This_Station, Max_Master and Max_Info_Frames
C39_PortMirrorsFacade ==
    Up => /\ m.MSTP_Port.This_Station = m.This_Station
          /\ m.MSTP_Port.Nmax_master = m.Max_Master
          /\ m.MSTP_Port.Nmax_info_frames = m.Max_Info_Frames

\* All three were changed after dlmstp_init, max_info_frames last
C39_Witness ==
    /\ Up
    /\ call.op = "dlmstp_set_max_info_frames"
    /\ m.This_Station = 200 /\ m.MSTP_Port.This_Station = 200
    /\ m.Max_Master = 1 /\ m.MSTP_Port.Nmax_master = 1
    /\ m.Max_Info_Frames = 255 /\ m.MSTP_Port.Nmax_info_frames = 255

(***************************************************************************)
(* The device instance and the station address                             *)
(***************************************************************************)
\* C40: a Device_Set_Object_Instance_Number(i) that succeeds stores i and sets
\* the station address to i mod 128, of the facade and of the port, with the
\* state machines back at their start when the port had another address and
\* the port untouched when it had this one; a later dlmstp_set_mac_address(a)
\* with a <= 254 sets the address to a and leaves the device instance as it is
C40_InstanceSetsAddress ==
    [][ /\ (call'.op = "Device_Set_Object_Instance_Number" /\ m'.ret = 1)
           => /\ m'.Device_Object_Instance = call'.arg.instance
              /\ dlmstp_mac_address(m').ret = call'.arg.instance.lo % 128
              /\ m'.MSTP_Port.This_Station = call'.arg.instance.lo % 128
              /\ IF m.MSTP_Port.This_Station # call'.arg.instance.lo % 128
                 THEN /\ m'.MSTP_Port.master_state = "INITIALIZE"
                      /\ m'.MSTP_Port.receive_state = "IDLE"
                      /\ m'.MSTP_Port = MSTP_Init(m'.MSTP_Port)
                 ELSE m'.MSTP_Port = m.MSTP_Port
        /\ (call'.op = "dlmstp_set_mac_address" /\ call'.arg.a <= 254)
           => /\ dlmstp_mac_address(m').ret = call'.arg.a
              /\ m'.Device_Object_Instance = m.Device_Object_Instance ]_vars

\* The station, which had frames of its own on the bus as station 1, was given
\* the instance 12345 and with it the address 57, its machines at their start
C40_Witness ==
    /\ call = [ op |-> "Device_Set_Object_Instance_Number",
                arg |-> [ instance |-> U32Of(12345) ] ]
    /\ env.up
    /\ m.tx_bytes > 0
    /\ m.ret = 1
    /\ m.This_Station = 57
    /\ m.MSTP_Port.This_Station = 57
    /\ m.MSTP_Port.master_state = "INITIALIZE"

\* The address given by hand afterwards stands, the instance is still 12345
C40_WitnessOverride ==
    /\ call = [ op |-> "dlmstp_set_mac_address", arg |-> [ a |-> 2 ] ]
    /\ env.up
    /\ m.Device_Object_Instance = U32Of(12345)
    /\ m.This_Station = 2

====
